---- MODULE Spec2Model ----
(***************************************************************************)
(* Verification model of the parametric structural geometry engine of     *)
(* adapy: the unit system (ada/base/units.py), the unit cascade of Beam,   *)
(* Plate, Wall and Section (ada/concepts/structural.py,                    *)
(* ada/sections/concept.py, ada/base/root.py, ada/materials/concept.py)    *)
(* and the orientation frame of a Beam.                                    *)
(*                                                                         *)
(* Numbers.  Python floats are modelled by integers.  A scale factor is a  *)
(* pair <<num, den>> (1000.0 = <<1000,1>>, 0.001 = <<1,1000>>) and a       *)
(* product is formed exactly; a product that is not an integer or leaves   *)
(* the range MaxLen is outside the model (the action is disabled).         *)
(* Direction vectors are fixed point with VS units per 1.0.                *)
(*                                                                         *)
(* Python values.  A unit value is a record [k, v]: k names the Python     *)
(* type ("Units" for an enum member, "str" for a string, "None"), v is the *)
(* string as a sequence of characters.  Equality of these records is       *)
(* Python's ==: Units.M == "m" is False.                                   *)
(***************************************************************************)
EXTENDS Integers, Sequences, FiniteSets, TLC

VARIABLES
    uq,      \* the pending / finished call of a pure function of Units
    cu,      \* the units argument the entities of the world were built with
    scene,   \* the structure the program works on: the two beams with their
             \* shared section, the plate, the wall, or the polygon section
    heap,    \* the fields of every object of the structural world
    heap0,   \* heap when the setup ended: after construction and the
             \* add_insert and setter calls made before the first units
             \* assignment
    last,    \* the last units assignment: target, value, the unit the target
             \* had before (old), the exception, the trace, and whether the
             \* call left every field of every object as it was (same)
    trk,     \* which beams have been assigned one common target unit, the
             \* round trip under way and the number of setter calls made
    fin,     \* the arguments of the Beam constructor call
    bm,      \* the Beam built from fin (orientation frame and end nodes)
    jw,      \* a beam with its connected joints, and the outcome of
             \* calc_con_points on it
    cb,      \* a beam or plate with its cached bounding box
    sp,      \* a section, the profile built from it and what the readers of
             \* the profile did
    co,      \* a Beam or Wall constructor call on raw coordinate tuples and
             \* the points it stored
    rf,      \* a beam's section, taper and material, and the refs lists of
             \* the sections and materials
    sid,     \* a Section's id and the last assignment to it
    ln,      \* a beam's end positions and eccentricities, and the reads of
             \* its length
    wsg      \* a wall's points and segments, and the last get_segment_props

vars == <<uq, cu, scene, heap, heap0, last, trk, fin, bm, jw, cb, sp, co, rf, sid, ln, wsg>>

(***************************************************************************)
(* Python values                                                           *)
(***************************************************************************)
NoneV == [k |-> "None", v |-> <<>>]
Str(s) == [k |-> "str", v |-> s]
UnitsM == [k |-> "Units", v |-> <<"m">>]
UnitsMM == [k |-> "Units", v |-> <<"m", "m">>]
\* class Units(Enum): its members, in definition order
UnitsMembers == <<UnitsM, UnitsMM>>
Units == {UnitsMembers[i] : i \in 1..Len(UnitsMembers)}

\* str.lower() on the characters the model uses
LowerChar(c) == IF c = "M" THEN "m" ELSE IF c = "C" THEN "c" ELSE c
Lower(s) == [i \in 1..Len(s) |-> LowerChar(s[i])]

\* a float scale factor as <<num, den>>; None as the empty tuple
NoneF == <<>>
F1000 == <<1000, 1>>
F0001 == <<1, 1000>>
F1 == <<1, 1>>

(***************************************************************************)
(* ada/base/units.py                                                       *)
(***************************************************************************)
\* Units.is_valid_unit: unit.lower() in [x.value.lower() for x in Units]
is_valid_unit(unit) == Lower(unit) \in {Lower(x.v) : x \in Units}

\* units_map.get(unit.lower()) with units_map = {x.value.lower(): x}
units_map_get(key) ==
    IF \E x \in Units : Lower(x.v) = key
    THEN CHOOSE x \in Units : Lower(x.v) = key
    ELSE NoneV

\* Units.from_str without the case folding of its argument
from_str_nolower(unit) ==
    LET unit_safe == units_map_get(unit)
    IN  IF unit_safe = NoneV
        THEN [raised |-> "InvalidUnit", ret |-> NoneV]
        ELSE [raised |-> "none", ret |-> NoneV]

\* Units.from_str: raises InvalidUnit when the lookup misses; the function
\* has no return statement, so a successful call returns None.
from_str(unit) ==
    LET unit_safe == units_map_get(Lower(unit))
    IN  IF unit_safe = NoneV
        THEN [raised |-> "InvalidUnit", ret |-> NoneV]
        ELSE [raised |-> "none", ret |-> NoneV]

\* the keys and values of scale_map in Units.get_scale_factor
scale_map ==
    [p \in {<<UnitsMM, UnitsM>>, <<UnitsM, UnitsM>>, <<UnitsM, UnitsMM>>} |->
        IF p = <<UnitsMM, UnitsM>> THEN F0001
        ELSE IF p = <<UnitsM, UnitsM>> THEN F1
        ELSE F1000]

\* Units.get_scale_factor: scale_map.get((from_unit, to_unit))
get_scale_factor(from_unit, to_unit) ==
    IF <<from_unit, to_unit>> \in DOMAIN scale_map
    THEN scale_map[<<from_unit, to_unit>>]
    ELSE NoneF

(***************************************************************************)
(* Exact arithmetic on lengths                                             *)
(***************************************************************************)
\* largest magnitude of a length the model represents
MaxLen == 10000000
OutOfModel == MaxLen + MaxLen

Abs(x) == IF x < 0 THEN -x ELSE x

\* x * f for a factor f = <<num, den>>
Mul(x, f) ==
    IF Abs(x) > MaxLen \div f[1] THEN OutOfModel
    ELSE IF (x * f[1]) % f[2] # 0 THEN OutOfModel
    ELSE (x * f[1]) \div f[2]

MulSeq(p, f) == [i \in 1..Len(p) |-> Mul(p[i], f)]
MulPts(ps, f) == [i \in 1..Len(ps) |-> MulSeq(ps[i], f)]

(***************************************************************************)
(* The objects of the structural world                                     *)
(*   B1 = Beam(N1, N2, S1, MAT) with penetration PEN1                      *)
(*   B2 = Beam(N2, N3, S1, MAT, tap=TP): shares node N2, section S1 and    *)
(*        MAT, and has the explicit taper section TP                       *)
(*   S2 = Section with an outer and an inner polygon                       *)
(*   PL = Plate(poly C_PL, PMAT) with penetration PEN2                     *)
(*   W  = Wall; add_insert gives it inserts, openings and penetrations     *)
(***************************************************************************)
Nodes == {"N1", "N2", "N3"}
Beams == {"B1", "B2"}
Sections == {"S1", "S2", "TP"}
Materials == {"MAT", "PMAT"}
Pens == {"PEN1", "PEN2"}
Curves == {"C_PL", "C_S2o", "C_S2i"}
Objs == Nodes \cup Beams \cup Sections \cup Materials \cup Pens \cup {"PL", "W"}

BeamN1(b) == IF b = "B1" THEN "N1" ELSE "N2"
BeamN2(b) == IF b = "B1" THEN "N2" ELSE "N3"
BeamSection(b) == "S1"
\* self._section, self._taper = get_section(sec); an explicit tap replaces it
BeamTaper(b) == IF b = "B1" THEN "S1" ELSE "TP"
BeamMaterial(b) == "MAT"
BeamPens(b) == IF b = "B1" THEN <<"PEN1">> ELSE <<>>
PlatePens == <<"PEN2">>
\* Section.poly_inner / poly_outer: None for S1
SecPolyInner(s) == IF s = "S2" THEN "C_S2i" ELSE "None"
SecPolyOuter(s) == IF s = "S2" THEN "C_S2o" ELSE "None"

\* the names Section.units rescales: vals in sections/concept.py
SectionVals == {"h", "w_top", "w_btn", "t_w", "t_ftop", "t_fbtn", "r", "wt"}

(***************************************************************************)
(* Results of a call: the heap it leaves, the exception it raised and the  *)
(* trace of the statements it ran.  A trace event records the object whose *)
(* setter runs (self), the statement (step), the unit self had when its    *)
(* setter was entered (old) and the unit field of self when the statement  *)
(* starts (now).                                                           *)
(***************************************************************************)
Ok(h) == [h |-> h, err |-> "none", log |-> <<>>]
Raise(h, e) == [h |-> h, err |-> e, log |-> <<>>]

\* run statement F after the statements that produced r, unless r raised
Step(r, self, old, name, F(_)) ==
    IF r.err # "none" THEN r
    ELSE LET ev == [self |-> self, step |-> name, old |-> old, now |-> r.h.unit[self]]
             r2 == F(r.h)
         IN  [h |-> r2.h, err |-> r2.err, log |-> r.log \o <<ev>> \o r2.log]

\* self._units = value
AssignUnits(h, self, value) == Ok([h EXCEPT !.unit[self] = value])

(***************************************************************************)
(* ada/base/root.py                                                        *)
(***************************************************************************)
\* Root.__init__: if isinstance(units, str): units = Units.from_str(units);
\* self._units = units
RootInit(units) ==
    IF units.k = "str"
    THEN LET r == from_str(units.v)
         IN  [raised |-> r.raised, units |-> r.ret]
    ELSE [raised |-> "none", units |-> units]

\* Root.units setter: raise NotImplementedError
RootUnitsSetter(h, self, value) == Raise(h, "NotImplementedError")

\* Material defines set_units() but no units property: an assignment to
\* material.units runs the setter inherited from Root.
MaterialUnits(h, m, value) == RootUnitsSetter(h, m, value)

(***************************************************************************)
(* Collaborators whose source is not part of the repository snapshot,      *)
(* written from the contract of the unit cascade: no-op on the same unit,  *)
(* one scale factor from the unit system, scale, then set the unit.        *)
(***************************************************************************)
\* ada.core.utils.unit_length_conversion: the factor of the unit system,
\* ValueError when there is none
unit_length_conversion(h, ori_unit, value) ==
    IF get_scale_factor(ori_unit, value) = NoneF THEN Raise(h, "ValueError") ELSE Ok(h)

\* Node.units setter
NodeUnits(h, n, value) ==
    IF h.unit[n] = value THEN Ok(h)
    ELSE LET f == get_scale_factor(h.unit[n], value)
         IN  IF f = NoneF THEN Raise(h, "ValueError")
             ELSE Ok([h EXCEPT !.pos[n] = MulSeq(@, f), !.unit[n] = value])

\* Penetration.units setter
PenUnits(h, pen, value) ==
    IF h.unit[pen] = value THEN Ok(h)
    ELSE LET f == get_scale_factor(h.unit[pen], value)
         IN  IF f = NoneF THEN Raise(h, "ValueError")
             ELSE Ok([h EXCEPT !.pen[pen] = Mul(@, f), !.unit[pen] = value])

\* the units setter of a wall insert (a Part): its width, its height, its
\* depth and the origin of its placement are rescaled
InsertUnits(ins, value) ==
    IF ins.unit = value THEN [err |-> "none", ins |-> ins]
    ELSE LET f == get_scale_factor(ins.unit, value)
         IN  IF f = NoneF THEN [err |-> "ValueError", ins |-> ins]
             ELSE [err |-> "none",
                   ins |-> [width |-> Mul(ins.width, f), height |-> Mul(ins.height, f),
                            depth |-> Mul(ins.depth, f),
                            origin |-> MulSeq(ins.origin, f), unit |-> value]]

\* p * f for a point p held in tenths of the length unit
MulTenths(p, f) ==
    [i \in 1..Len(p) |->
        IF Abs(p[i]) > (10 * MaxLen) \div f[1] \/ (p[i] * f[1]) % f[2] # 0
        THEN 10 * OutOfModel
        ELSE (p[i] * f[1]) \div f[2]]

\* the units setter of a box penetration of the wall (a PrimBox)
BoxUnits(box, value) ==
    IF box.unit = value THEN [err |-> "none", box |-> box]
    ELSE LET f == get_scale_factor(box.unit, value)
         IN  IF f = NoneF THEN [err |-> "ValueError", box |-> box]
             ELSE [err |-> "none",
                   box |-> [p1 |-> MulTenths(box.p1, f), p2 |-> MulTenths(box.p2, f),
                            unit |-> value]]

\* CurvePoly.scale(scale_factor, tol): rescales the points, keeps tol
CurveScale(h, c, f, tol) ==
    Ok([h EXCEPT !.poly[c] = [pts |-> MulSeq(@.pts, f), tol |-> tol]])

\* for pen in pens: pen.units = value
RECURSIVE ForEachPen(_, _, _)
ForEachPen(r, pens, value) ==
    IF pens = <<>> \/ r.err # "none" THEN r
    ELSE LET r2 == PenUnits(r.h, Head(pens), value)
         IN  ForEachPen([h |-> r2.h, err |-> r2.err, log |-> r.log \o r2.log],
                        Tail(pens), value)

\* for pen in self._penetrations: pen.units = value, from the i-th on
RECURSIVE ForEachWallPen(_, _, _)
ForEachWallPen(r, i, value) ==
    IF r.err # "none" \/ i > Len(r.h.wall.pens) THEN r
    ELSE LET r2 == BoxUnits(r.h.wall.pens[i], value)
         IN  ForEachWallPen([h |-> [r.h EXCEPT !.wall.pens[i] = r2.box],
                             err |-> r2.err, log |-> r.log], i + 1, value)

\* for insert in self._inserts: insert.units = value, from the i-th on
RECURSIVE ForEachInsert(_, _, _)
ForEachInsert(r, i, value) ==
    IF r.err # "none" \/ i > Len(r.h.wall.inserts) THEN r
    ELSE LET r2 == InsertUnits(r.h.wall.inserts[i], value)
         IN  ForEachInsert([h |-> [r.h EXCEPT !.wall.inserts[i] = r2.ins],
                            err |-> r2.err, log |-> r.log], i + 1, value)

(***************************************************************************)
(* ada/sections/concept.py: Section.units setter                           *)
(***************************************************************************)
\* for key in self.__dict__: if value is not None and key[1:] in vals:
\*     self.__dict__[key] *= scale_factor
\* (a dimension that is None is absent from dims[s])
SectionScaleDims(h, s, f) ==
    Ok([h EXCEPT !.dims[s] =
        [d \in DOMAIN @ |-> IF d \in SectionVals THEN Mul(@[d], f) ELSE @[d]]])

SectionScalePoly(h, c, f) ==
    IF c = "None" THEN Ok(h) ELSE CurveScale(h, c, f, "point_tol")

\* Section.units setter that never stores the new unit
SectionUnits_unitNotStored(h, s, value) ==
    IF h.unit[s] = value THEN Ok(h)
    ELSE LET old == h.unit[s]
             f == get_scale_factor(old, value)
         IN  Step(Step(Step(Step(Ok(h),
                s, old, "scale_factor", LAMBDA x : unit_length_conversion(x, old, value)),
                s, old, "poly_inner", LAMBDA x : SectionScalePoly(x, SecPolyInner(s), f)),
                s, old, "poly_outer", LAMBDA x : SectionScalePoly(x, SecPolyOuter(s), f)),
                s, old, "dims", LAMBDA x : SectionScaleDims(x, s, f))

\* Section.units setter without the guard on the stored unit
SectionUnits_noGuard(h, s, value) ==
    LET old == h.unit[s]
        f == get_scale_factor(old, value)
    IN  Step(Step(Step(Step(Step(Ok(h),
           s, old, "scale_factor", LAMBDA x : unit_length_conversion(x, old, value)),
           s, old, "poly_inner", LAMBDA x : SectionScalePoly(x, SecPolyInner(s), f)),
           s, old, "poly_outer", LAMBDA x : SectionScalePoly(x, SecPolyOuter(s), f)),
           s, old, "dims", LAMBDA x : SectionScaleDims(x, s, f)),
           s, old, "_units", LAMBDA x : AssignUnits(x, s, value))

SectionUnits(h, s, value) ==
    IF h.unit[s] = value THEN Ok(h)
    ELSE LET old == h.unit[s]
             f == get_scale_factor(old, value)
         IN  Step(Step(Step(Step(Step(Ok(h),
                s, old, "scale_factor", LAMBDA x : unit_length_conversion(x, old, value)),
                s, old, "poly_inner", LAMBDA x : SectionScalePoly(x, SecPolyInner(s), f)),
                s, old, "poly_outer", LAMBDA x : SectionScalePoly(x, SecPolyOuter(s), f)),
                s, old, "dims", LAMBDA x : SectionScaleDims(x, s, f)),
                s, old, "_units", LAMBDA x : AssignUnits(x, s, value))

(***************************************************************************)
(* ada/concepts/structural.py: Beam.units setter                           *)
(***************************************************************************)
\* Beam.units setter that stores the new unit before the cascade
BeamUnits_unitsFirst(h, b, value) ==
    IF h.unit[b] = value THEN Ok(h)
    ELSE LET old == h.unit[b]
         IN  Step(Step(Step(Step(Step(Step(Ok(h),
                b, old, "_units", LAMBDA x : AssignUnits(x, b, value)),
                b, old, "n1", LAMBDA x : NodeUnits(x, BeamN1(b), value)),
                b, old, "n2", LAMBDA x : NodeUnits(x, BeamN2(b), value)),
                b, old, "section", LAMBDA x : SectionUnits(x, BeamSection(b), value)),
                b, old, "material", LAMBDA x : MaterialUnits(x, BeamMaterial(b), value)),
                b, old, "penetrations", LAMBDA x : ForEachPen(Ok(x), BeamPens(b), value))

\* Beam.units setter whose cascade leaves out the material
BeamUnits_noMaterial(h, b, value) ==
    IF h.unit[b] = value THEN Ok(h)
    ELSE LET old == h.unit[b]
         IN  Step(Step(Step(Step(Step(Ok(h),
                b, old, "n1", LAMBDA x : NodeUnits(x, BeamN1(b), value)),
                b, old, "n2", LAMBDA x : NodeUnits(x, BeamN2(b), value)),
                b, old, "section", LAMBDA x : SectionUnits(x, BeamSection(b), value)),
                b, old, "penetrations", LAMBDA x : ForEachPen(Ok(x), BeamPens(b), value)),
                b, old, "_units", LAMBDA x : AssignUnits(x, b, value))

BeamUnits(h, b, value) ==
    IF h.unit[b] = value THEN Ok(h)
    ELSE LET old == h.unit[b]
         IN  Step(Step(Step(Step(Step(Step(Ok(h),
                b, old, "n1", LAMBDA x : NodeUnits(x, BeamN1(b), value)),
                b, old, "n2", LAMBDA x : NodeUnits(x, BeamN2(b), value)),
                b, old, "section", LAMBDA x : SectionUnits(x, BeamSection(b), value)),
                b, old, "material", LAMBDA x : MaterialUnits(x, BeamMaterial(b), value)),
                b, old, "penetrations", LAMBDA x : ForEachPen(Ok(x), BeamPens(b), value)),
                b, old, "_units", LAMBDA x : AssignUnits(x, b, value))

(***************************************************************************)
(* ada/concepts/structural.py: Plate.units setter                          *)
(***************************************************************************)
\* tol = Settings.mmtol if value == "mm" else Settings.mtol
PlateTol(value) == IF value = Str(<<"m", "m">>) THEN "mmtol" ELSE "mtol"

PlateUnits(h, pl, value) ==
    IF h.unit[pl] = value THEN Ok(h)
    ELSE LET old == h.unit[pl]
             f == get_scale_factor(old, value)
         IN  Step(Step(Step(Step(Step(Step(Ok(h),
                pl, old, "scale_factor", LAMBDA x : unit_length_conversion(x, old, value)),
                pl, old, "t", LAMBDA x : Ok([x EXCEPT !.plate_t = Mul(@, f)])),
                pl, old, "poly", LAMBDA x : CurveScale(x, "C_PL", f, PlateTol(value))),
                pl, old, "penetrations", LAMBDA x : ForEachPen(Ok(x), PlatePens, value)),
                pl, old, "material", LAMBDA x : MaterialUnits(x, "PMAT", value)),
                pl, old, "_units", LAMBDA x : AssignUnits(x, pl, value))

(***************************************************************************)
(* Vectors.  A direction vector is fixed point: VS stands for 1.0.  These  *)
(* helpers stand for numpy and ada.core.vector_utils (unit_vector,         *)
(* vector_length), written from the contract of the frame solver.          *)
(***************************************************************************)
\* fixed-point scale of direction vectors: VS stands for 1.0
VS == 10 * 100
\* the value of a component that numpy reports as nan
NaN == 0 - VS * VS

Sub(a, b) == [i \in 1..3 |-> a[i] - b[i]]
Dot(a, b) == a[1] * b[1] + a[2] * b[2] + a[3] * b[3]
Fixed(p) == [i \in 1..3 |-> p[i] * VS]
IsNaN(v) == \E i \in 1..Len(v) : v[i] = NaN

\* a / b rounded to the nearest integer, b > 0
RDiv(a, b) == (2 * a + b) \div (2 * b)

\* the integer square root of n >= 0, by bisection on lo..hi
RECURSIVE SqrtIn(_, _, _)
SqrtIn(n, lo, hi) ==
    IF lo >= hi THEN lo
    ELSE LET mid == (lo + hi + 1) \div 2
         IN  IF mid * mid <= n THEN SqrtIn(n, mid, hi) ELSE SqrtIn(n, lo, mid - 1)
ISqrt(n) == SqrtIn(n, 0, 40000)

\* vector_length(v) of a fixed-point vector, in fixed point
vector_length(v) == ISqrt(Dot(v, v))

\* unit_vector(v) = v / norm(v); a zero vector yields nan components
unit_vector(v) ==
    IF IsNaN(v) \/ vector_length(v) = 0 THEN <<NaN, NaN, NaN>>
    ELSE [i \in 1..3 |-> RDiv(v[i] * VS, vector_length(v))]

\* cross(a, b) of two fixed-point vectors
Cross(a, b) ==
    IF IsNaN(a) \/ IsNaN(b) THEN <<NaN, NaN, NaN>>
    ELSE <<RDiv(a[2] * b[3] - a[3] * b[2], VS),
           RDiv(a[3] * b[1] - a[1] * b[3], VS),
           RDiv(a[1] * b[2] - a[2] * b[1], VS)>>

(***************************************************************************)
(* ada/concepts/structural.py: Wall.get_segment_props and Wall.add_insert  *)
(***************************************************************************)
\* self._segments[i] for a Python index i: negative indexes count from the end
PyIndex(s, i) ==
    IF i >= Len(s) \/ i < 0 - Len(s) THEN <<>>
    ELSE IF i >= 0 THEN <<s[i + 1]>> ELSE <<s[Len(s) + i + 1]>>

\* Wall.get_segment_props(wall_segment); the segments of the walls built here
\* run along the axes, so their lengths are whole
get_segment_props(segments, wall_segment) ==
    IF wall_segment > Len(segments) THEN [err |-> "ValueError", ret |-> <<>>]
    ELSE IF PyIndex(segments, wall_segment) = <<>>
    THEN [err |-> "IndexError", ret |-> <<>>]
    ELSE LET seg == PyIndex(segments, wall_segment)[1]
             xvec == unit_vector(Sub(seg[2], seg[1]))
             zvec == <<0, 0, VS>>
             yvec == unit_vector(Cross(zvec, xvec))
         IN  [err |-> "none", ret |-> <<xvec, yvec, zvec>>]

\* v * s for a fixed-point direction v and a length s; the directions of the
\* wall segments built here lie along the axes
Along(v, s) ==
    [i \in 1..3 |->
        IF v[i] = 0 THEN 0 ELSE IF v[i] = VS THEN s ELSE IF v[i] = 0 - VS THEN 0 - s
        ELSE RDiv(v[i] * s, VS)]
Add(a, b) == [i \in 1..3 |-> a[i] + b[i]]
Half(x) == IF x % 2 = 0 THEN x \div 2 ELSE OutOfModel

\* largest number of inserts added to the wall
MaxInserts == 2

\* tol = 0.4 in Wall.add_insert, in tenths of the length unit
InsertTol == 4
\* the coordinates of a box penetration are held in tenths
Tenths(p) == [i \in 1..3 |-> 10 * p[i]]

\* the insert handed to add_insert: a window built by the caller with the
\* units argument of the other constructors
NewInsert(units) ==
    [width |-> 2 * (IF units.v = <<"m", "m">> THEN 1000 ELSE 1),
     height |-> IF units.v = <<"m", "m">> THEN 1000 ELSE 1,
     depth |-> 0, origin |-> <<0, 0, 0>>, unit |-> RootInit(units).units]

\* the corners (x0, y0, z0), (x1, y1, z1) of the bounding box of the frame of
\* an insert placed at origin with its width along xvec, its height along
\* zvec and its depth along yvec
FrameBox(ins, xvec, yvec, zvec) ==
    LET far == Add(Add(Add(ins.origin, Along(xvec, ins.width)),
                       Along(zvec, ins.height)), Along(yvec, ins.depth))
    IN  [mi |-> [i \in 1..3 |-> IF far[i] < ins.origin[i] THEN far[i] ELSE ins.origin[i]],
         ma |-> [i \in 1..3 |-> IF far[i] < ins.origin[i] THEN ins.origin[i] ELSE far[i]]]

\* PrimBox("my_pen", p1, p2): no units argument, so Root.__init__ stores its
\* default Units.M
PrimBox(p1, p2) == [p1 |-> p1, p2 |-> p2, unit |-> RootInit(UnitsM).units]

\* Wall.add_insert(insert, wall_segment, off_x, off_z) on the wall of heap h
AddInsert(h, insert, wall_segment, off_x, off_z) ==
    LET props == get_segment_props(h.wall.segments, wall_segment)
    IN  IF props.err # "none" THEN [h |-> h, err |-> props.err]
        ELSE
        LET xvec == props.ret[1]
            yvec == props.ret[2]
            zvec == props.ret[3]
            p1 == PyIndex(h.wall.segments, wall_segment)[1][1]
            start == Add(Add(Add(p1,
                        Along(yvec, Half(h.wall.thickness) + h.wall.offset)),
                        Along(xvec, off_x)), Along(zvec, off_z))
            wi == [insert EXCEPT !.depth = h.wall.thickness, !.origin = start]
            box == FrameBox(wi, xvec, yvec, zvec)
            reach == 5 * wi.depth + InsertTol
            pen1 == Add(Tenths(wi.origin), Along(yvec, 0 - reach))
            pen2 == Add(Add(Add(Tenths(wi.origin), Along(yvec, reach)),
                        Along(xvec, 10 * wi.width)), Along(zvec, 10 * wi.height))
        IN  [h |-> [h EXCEPT
                      !.wall.inserts = Append(@, wi),
                      !.wall.openings =
                          Append(@, [ws |-> wall_segment, mi |-> box.mi, ma |-> box.ma]),
                      !.wall.pens = Append(@, PrimBox(pen1, pen2))],
             err |-> "none"]

(***************************************************************************)
(* ada/concepts/structural.py: Wall.units setter                           *)
(***************************************************************************)
\* list(zip(self._points[:-1], self.points[1:]))
WallSegments(points) ==
    [i \in 1..(Len(points) - 1) |-> <<points[i], points[i + 1]>>]

\* opening[2] and opening[3] of every opening are rescaled
WallScaleOpenings(ops, f) ==
    [i \in 1..Len(ops) |->
        [ops[i] EXCEPT !.mi = MulSeq(@, f), !.ma = MulSeq(@, f)]]

\* Wall.units setter that stores the new unit before the cascade
WallUnits_unitsFirst(h, w, value) ==
    IF value = h.unit[w] THEN Ok(h)
    ELSE LET old == h.unit[w]
             f == get_scale_factor(old, value)
         IN  Step(Step(Step(Step(Step(Step(Step(Step(Step(Step(Step(Ok(h),
                w, old, "_units", LAMBDA x : AssignUnits(x, w, value)),
                w, old, "scale_factor", LAMBDA x : unit_length_conversion(x, old, value)),
                w, old, "height", LAMBDA x : Ok([x EXCEPT !.wall.height = Mul(@, f)])),
                w, old, "thickness", LAMBDA x : Ok([x EXCEPT !.wall.thickness = Mul(@, f)])),
                w, old, "offset", LAMBDA x : Ok([x EXCEPT !.wall.offset = Mul(@, f)])),
                w, old, "origin", LAMBDA x : Ok([x EXCEPT !.wall.origin = MulSeq(@, f)])),
                w, old, "points", LAMBDA x : Ok([x EXCEPT !.wall.points = MulPts(@, f)])),
                w, old, "segments",
                    LAMBDA x : Ok([x EXCEPT !.wall.segments = WallSegments(x.wall.points)])),
                w, old, "penetrations", LAMBDA x : ForEachWallPen(Ok(x), 1, value)),
                w, old, "openings",
                    LAMBDA x : Ok([x EXCEPT !.wall.openings = WallScaleOpenings(@, f)])),
                w, old, "inserts", LAMBDA x : ForEachInsert(Ok(x), 1, value))

WallUnits(h, w, value) ==
    IF value = h.unit[w] THEN Ok(h)
    ELSE LET old == h.unit[w]
             f == get_scale_factor(old, value)
         IN  Step(Step(Step(Step(Step(Step(Step(Step(Step(Step(Step(Ok(h),
                w, old, "scale_factor", LAMBDA x : unit_length_conversion(x, old, value)),
                w, old, "height", LAMBDA x : Ok([x EXCEPT !.wall.height = Mul(@, f)])),
                w, old, "thickness", LAMBDA x : Ok([x EXCEPT !.wall.thickness = Mul(@, f)])),
                w, old, "offset", LAMBDA x : Ok([x EXCEPT !.wall.offset = Mul(@, f)])),
                w, old, "origin", LAMBDA x : Ok([x EXCEPT !.wall.origin = MulSeq(@, f)])),
                w, old, "points", LAMBDA x : Ok([x EXCEPT !.wall.points = MulPts(@, f)])),
                w, old, "segments",
                    LAMBDA x : Ok([x EXCEPT !.wall.segments = WallSegments(x.wall.points)])),
                w, old, "penetrations", LAMBDA x : ForEachWallPen(Ok(x), 1, value)),
                w, old, "openings",
                    LAMBDA x : Ok([x EXCEPT !.wall.openings = WallScaleOpenings(@, f)])),
                w, old, "inserts", LAMBDA x : ForEachInsert(Ok(x), 1, value)),
                w, old, "_units", LAMBDA x : AssignUnits(x, w, value))

(***************************************************************************)
(* Construction of the structural world                                    *)
(***************************************************************************)
\* largest base length (in the construction unit) of the constructed world
MaxBase == 1

\* the units arguments given to the constructors, and the values assigned
CtorUnits == {Str(<<"m">>), Str(<<"m", "m">>), UnitsM, UnitsMM}
AssignVals == Units \cup {Str(<<"m">>), Str(<<"m", "m">>), Str(<<"c", "m">>)}

\* lengths are whole metres, or the same lengths in millimetres
UnitLen(units) == IF units.v = <<"m", "m">> THEN 1000 ELSE 1

\* Plate.__init__: an explicit tol is kept; with tol None the units argument
\* is compared with the strings "mm" and "m", and anything else, an enum
\* member included, raises ValueError
PlateCtorTol(units, tol) ==
    IF tol # "None" THEN tol
    ELSE IF units = Str(<<"m", "m">>) THEN "mmtol"
    ELSE IF units = Str(<<"m">>) THEN "mtol"
    ELSE "ValueError"

\* the tol the caller gives with lengths in units: Settings.mmtol or mtol
CurveTol(units) == IF units.v = <<"m", "m">> THEN "mmtol" ELSE "mtol"

\* the tol argument the plate of the worlds below is built with: None with
\* a units string, the tolerance of the unit with an enum member
PlateTolArg(units) == IF units.k = "str" THEN "None" ELSE CurveTol(units)

\* every constructor hands units to Root.__init__; Material, a dataclass,
\* never runs Root.__init__ and holds no unit.  tol is the tol argument of
\* the plate; raised is the exception of its constructor, after which there
\* is no plate
ConstructTol(units, L, tol) ==
    LET k == UnitLen(units)
        stored == RootInit(units).units
    IN  [raised |-> IF PlateCtorTol(units, tol) = "ValueError" THEN "ValueError"
                    ELSE "none",
         unit |-> [o \in Objs |-> IF o \in Materials THEN NoneV ELSE stored],
         pos |-> [n \in Nodes |->
                    IF n = "N1" THEN <<0, 0, 0>>
                    ELSE IF n = "N2" THEN <<2 * L * k, 0, 0>>
                    ELSE <<2 * L * k, 3 * k, 0>>],
         dims |-> [s \in Sections |->
                    IF s \in {"S1", "TP"}
                    THEN [d \in {"h", "w_top", "w_btn", "t_w", "t_ftop", "t_fbtn"} |->
                            IF d = "h" THEN (IF s = "S1" THEN 4 ELSE 2) * L * k
                            ELSE IF d \in {"w_top", "w_btn"} THEN 2 * k
                            ELSE k]
                    ELSE [d \in {"r", "wt"} |-> IF d = "r" THEN 3 * k ELSE L * k]],
         poly |-> [c \in Curves |->
                    [pts |-> IF c = "C_S2i" THEN <<0, 0, k, 0, k, k>>
                             ELSE <<0, 0, 2 * L * k, 0, 2 * L * k, 3 * k>>,
                     tol |-> IF c = "C_PL" THEN PlateCtorTol(units, tol)
                             ELSE CurveTol(units)]],
         pen |-> [p \in Pens |-> L * k],
         plate_t |-> L * k,
         wall |-> [height |-> 3 * k,
                   thickness |-> 2 * L * k,
                   offset |-> -(L * k),
                   origin |-> <<k, 0, 0>>,
                   points |-> <<<<0, 0, 0>>, <<4 * k, 0, 0>>, <<4 * k, 3 * L * k, 0>>>>,
                   segments |-> WallSegments(
                       <<<<0, 0, 0>>, <<4 * k, 0, 0>>, <<4 * k, 3 * L * k, 0>>>>),
                   openings |-> <<>>, inserts |-> <<>>, pens |-> <<>>]]

Construct(units, L) == ConstructTol(units, L, PlateTolArg(units))

\* the tol arguments a program gives its plate: None or the tolerance of
\* the unit
PlateTolArgs(sc, units) ==
    IF sc = "plate" THEN {"None", CurveTol(units)} ELSE {PlateTolArg(units)}

SeqRange(s) == {s[i] : i \in 1..Len(s)}

\* every length held in heap h
NumsOf(h) ==
    UNION {SeqRange(h.pos[n]) : n \in Nodes}
    \cup UNION {{h.dims[s][d] : d \in DOMAIN h.dims[s]} : s \in Sections}
    \cup UNION {SeqRange(h.poly[c].pts) : c \in Curves}
    \cup {h.pen[p] : p \in Pens}
    \cup {h.plate_t, h.wall.height, h.wall.thickness, h.wall.offset}
    \cup UNION {{h.wall.inserts[i].width, h.wall.inserts[i].height,
                 h.wall.inserts[i].depth} \cup SeqRange(h.wall.inserts[i].origin) :
                    i \in 1..Len(h.wall.inserts)}
    \cup SeqRange(h.wall.origin)
    \cup UNION {SeqRange(h.wall.points[i]) : i \in 1..Len(h.wall.points)}
    \cup UNION {SeqRange(h.wall.openings[i].mi) \cup SeqRange(h.wall.openings[i].ma) :
                    i \in 1..Len(h.wall.openings)}

\* every coordinate, in tenths, of the box penetrations of the wall of h
TenthsOf(h) ==
    UNION {SeqRange(h.wall.pens[i].p1) \cup SeqRange(h.wall.pens[i].p2) :
              i \in 1..Len(h.wall.pens)}

InModel(h) ==
    /\ \A x \in NumsOf(h) : Abs(x) <= MaxLen
    /\ \A x \in TenthsOf(h) : Abs(x) <= 10 * MaxLen

\* the length-valued attributes of h (everything but the unit fields)
Lengths(h) == [pos |-> h.pos, dims |-> h.dims, polys |-> [c \in Curves |-> h.poly[c].pts],
               pen |-> h.pen, plate_t |-> h.plate_t,
               wall |-> [h.wall EXCEPT
                   !.inserts = [i \in 1..Len(@) |-> [@[i] EXCEPT !.unit = NoneV]],
                   !.pens = [i \in 1..Len(@) |-> [@[i] EXCEPT !.unit = NoneV]]]]

IdleUq == [op |-> "none", s |-> <<>>, a |-> NoneV, b |-> NoneV,
           raised |-> "none", ret |-> NoneV, valid |-> FALSE, fac |-> NoneF]
IdleLast == [cls |-> "none", self |-> "none", value |-> NoneV, old |-> NoneV,
             err |-> "none", log |-> <<>>, same |-> TRUE, fresh |-> TRUE]
IdleTrk == [pure |-> TRUE, target |-> NoneV, done |-> {}, sets |-> 0,
            completed |-> TRUE, assigned |-> {},
            rt |-> [self |-> "none", first |-> NoneV, stage |-> 0]]
IdleFin == [n1 |-> <<0, 0, 0>>, n2 |-> <<0, 0, 0>>, up |-> <<>>, angle |-> 0]
IdleBm == [status |-> "none"]
IdleJw == [status |-> "none"]
IdleCb == [status |-> "none"]
IdleSp == [status |-> "none"]
IdleCo == [status |-> "none"]
IdleRf == [status |-> "none"]
IdleSid == [status |-> "none"]
IdleLn == [status |-> "none"]
IdleWsg == [status |-> "none"]

Scenes == {"beams", "plate", "wall", "section"}
\* the sections a program working on a scene assigns units to directly
SceneSections(sc) == IF sc = "beams" THEN {"S1"} ELSE IF sc = "section" THEN {"S2"} ELSE {}

Init ==
    /\ cu \in CtorUnits
    /\ scene \in Scenes
    /\ \E L \in 1..MaxBase, tol \in PlateTolArgs(scene, cu) :
          heap = ConstructTol(cu, L, tol)
    /\ heap0 = heap
    /\ last = IdleLast
    /\ trk = IdleTrk
    /\ uq = IdleUq
    /\ fin = IdleFin
    /\ bm = IdleBm
    /\ jw = IdleJw
    /\ cb = IdleCb
    /\ sp = IdleSp
    /\ co = IdleCo
    /\ rf = IdleRf
    /\ sid = IdleSid
    /\ ln = IdleLn
    /\ wsg = IdleWsg

(***************************************************************************)
(* The units assignments: entity.units = value                             *)
(***************************************************************************)
\* trk after the assignment self.units = value:
\*   pure/target/done: so far only beams were assigned, all the same value;
\*   rt: stage 1 after the first assignment of a run, made to self with an
\*       enum member; stage 2 when the next assignment gives the same object
\*       the other enum member (a round trip); 0 otherwise;
\*   sets: the calls of the placement and flange-width setters so far;
\*   completed/assigned: every units assignment so far was made to a beam
\*       and returned normally; the beams so assigned.
TrkNext(cls, self, value, err) ==
    [pure |-> trk.pure /\ cls = "Beam" /\ trk.target \in {NoneV, value},
     target |-> IF trk.target = NoneV THEN value ELSE trk.target,
     done |-> IF trk.pure /\ cls = "Beam" /\ trk.target \in {NoneV, value}
              THEN trk.done \cup {self} ELSE trk.done,
     sets |-> trk.sets,
     completed |-> trk.completed /\ cls = "Beam" /\ err = "none",
     assigned |-> IF trk.completed /\ cls = "Beam" /\ err = "none"
                  THEN trk.assigned \cup {self} ELSE trk.assigned,
     rt |-> IF last.cls = "none" /\ value \in Units
            THEN [self |-> self, first |-> value, stage |-> 1]
            ELSE IF trk.rt.stage = 1 /\ trk.rt.self = self
                    /\ value \in Units \ {trk.rt.first}
            THEN [trk.rt EXCEPT !.stage = 2]
            ELSE [self |-> "none", first |-> NoneV, stage |-> 0]]

Called(cls, self, value, r) ==
    /\ heap.raised = "none"
    /\ \E res \in {r} :
          /\ InModel(res.h)
          /\ heap' = res.h
          /\ last' = [cls |-> cls, self |-> self, value |-> value,
                      old |-> heap.unit[self],
                      err |-> res.err, log |-> res.log, same |-> (res.h = heap),
                      fresh |-> (heap = heap0)]
          /\ trk' = TrkNext(cls, self, value, res.err)
    /\ UNCHANGED <<uq, cu, scene, heap0, fin, bm, jw, cb, sp, co, rf, sid, ln, wsg>>

BeamSetUnits ==
    \E b \in Beams, value \in AssignVals :
        /\ scene = "beams"
        /\ Called("Beam", b, value, BeamUnits(heap, b, value))

PlateSetUnits ==
    \E value \in AssignVals :
        /\ scene = "plate"
        /\ Called("Plate", "PL", value, PlateUnits(heap, "PL", value))

WallSetUnits ==
    \E value \in AssignVals :
        /\ scene = "wall"
        /\ Called("Wall", "W", value, WallUnits(heap, "W", value))

SectionSetUnits ==
    \E s \in SceneSections(scene), value \in AssignVals :
        Called("Section", s, value, SectionUnits(heap, s, value))

\* largest number of calls of the placement and flange-width setters
MaxSets == 1

\* a call other than a units assignment leaves heap h2; n = 1 when it is a
\* call of a setter counted in trk.sets.  heap0 follows the
\* calls made before the first units assignment; a later call ends the
\* round trip and the run of beam conversions under way, and the world is no
\* longer the one the last assignment left (fresh).
Mutated(h2, n) ==
    /\ heap.raised = "none"
    /\ trk.sets + n <= MaxSets
    /\ \E h \in {h2} :
          /\ InModel(h)
          /\ heap' = h
          /\ heap0' = IF last.cls = "none" THEN h ELSE heap0
    /\ last' = IF last.cls = "none" THEN last ELSE [last EXCEPT !.fresh = FALSE]
    /\ trk' = [trk EXCEPT !.pure = @ /\ last.cls = "none", !.sets = @ + n,
                          !.rt = [self |-> "none", first |-> NoneV, stage |-> 0]]
    /\ UNCHANGED <<uq, cu, scene, fin, bm, jw, cb, sp, co, rf, sid, ln, wsg>>

\* wall.add_insert(insert, wall_segment, off_x, off_z).  A call that raises
\* leaves the wall as it was.
WallAddInsert ==
    \E wall_segment \in 0..(Len(heap.wall.segments) + 1),
       off_x \in {heap.wall.height}, off_z \in {0} :
        /\ scene = "wall"
        /\ Len(heap.wall.inserts) < MaxInserts
        /\ Mutated(AddInsert(heap, NewInsert(cu), wall_segment, off_x, off_z).h, 0)

\* the origins of the placements a program gives its wall
PlacementOrigins(units) == {<<5 * UnitLen(units), 0, 0>>}

\* Wall.placement setter: self._placement = value
WallPlacement(h, origin) == [h EXCEPT !.wall.origin = origin]

WallSetPlacement ==
    \E origin \in PlacementOrigins(cu) :
        /\ scene = "wall"
        /\ Mutated(WallPlacement(heap, origin), 1)

\* the widths a program gives the flanges of its section
TopWidths(units) == {5 * UnitLen(units)}
BtnWidths(units) == {7 * UnitLen(units)}

\* Section.w_top and Section.w_btn setters: self._w_top = value,
\* self._w_btn = value (a dimension that was None enters dims[s])
SectionSetDim(h, s, d, value) ==
    [h EXCEPT !.dims[s] =
        [x \in DOMAIN @ \cup {d} |-> IF x = d THEN value ELSE @[x]]]

SectionSetWTop ==
    \E s \in SceneSections(scene), value \in TopWidths(cu) :
        Mutated(SectionSetDim(heap, s, "w_top", value), 1)

SectionSetWBtn ==
    \E s \in SceneSections(scene), value \in BtnWidths(cu) :
        Mutated(SectionSetDim(heap, s, "w_btn", value), 1)

Next ==
    \/ BeamSetUnits \/ PlateSetUnits \/ WallSetUnits \/ SectionSetUnits
    \/ WallAddInsert \/ WallSetPlacement \/ SectionSetWTop \/ SectionSetWBtn

Spec == Init /\ [][Next]_vars

(***************************************************************************)
(* Properties of the unit cascade                                          *)
(***************************************************************************)
\* the last assignment gave its target the unit it already has: the value
\* equals the stored unit, or the target is freshly constructed and the value
\* is the very units argument it was constructed with
SameUnitAssigned ==
    /\ last.cls # "none"
    /\ \/ last.value = last.old
       \/ last.fresh /\ last.value = cu

\* C1: assigning a Beam, Plate, Wall or Section the unit it already has
\* changes nothing: every length-valued attribute of the entity and of its
\* sub-entities keeps its value and no sub-entity is rescaled (no field of
\* any object differs after the call); in particular for an entity freshly
\* constructed with units "m" that is assigned "m" again.
C1_SameUnitIsNoOp ==
    SameUnitAssigned => last.same

\* a section that was converted from metres to millimetres is assigned
\* millimetres again and is left as it was
C1_Witness ==
    /\ last.cls = "Section"
    /\ last.value = UnitsMM
    /\ last.old = UnitsMM
    /\ heap0.unit[last.self] = UnitsM
    /\ heap.unit[last.self] = UnitsMM
    /\ last.same

\* the object of a finished round trip (A, then the other unit) was in unit A
RoundTripDone ==
    /\ trk.rt.stage = 2
    /\ last.value = heap0.unit[trk.rt.self]
    /\ heap0.unit[trk.rt.self] = UnitsM

\* C2: for a Wall, Plate, Section or Beam in metres, setting the unit to
\* millimetres and then back to metres restores every length-valued attribute.
C2_RoundTripRestores ==
    RoundTripDone => Lengths(heap) = Lengths(heap0)

\* the last call assigned a beam a recognized unit other than the one it had
BeamConverted ==
    /\ last.cls = "Beam"
    /\ last.value \in Units
    /\ last.old \in Units \ {last.value}

\* C3: setting a Beam's unit to a different recognized unit completes without
\* raising, and afterwards the beam, both end nodes, its section, its material
\* and each of its penetrations carry the new unit.
C3_BeamCascadeCompletes ==
    BeamConverted =>
        /\ last.err = "none"
        /\ \A o \in {last.self, BeamN1(last.self), BeamN2(last.self),
                     BeamSection(last.self), BeamMaterial(last.self)}
                    \cup SeqRange(BeamPens(last.self)) :
                heap.unit[o] = last.value

\* every beam that references section s has been assigned unit B, and nothing
\* else was assigned, in a world constructed in unit A
AllBeamsConverted(s, A, B) ==
    /\ trk.pure
    /\ trk.target = B
    /\ \A b \in Beams : BeamSection(b) = s => b \in trk.done
    /\ \A o \in {s} \cup {b \in Beams : BeamSection(b) = s} : heap0.unit[o] = A

\* C4: when the beams that share a section are each converted from unit A to
\* unit B, in any order, every dimension of the section ends up multiplied by
\* the A->B factor exactly once.
C4_SharedSectionScaledOnce ==
    \A A \in Units : \A B \in Units \ {A} :
        AllBeamsConverted("S1", A, B) =>
            \A d \in DOMAIN heap.dims["S1"] :
                heap.dims["S1"][d] = Mul(heap0.dims["S1"][d], get_scale_factor(A, B))

C4_Witness ==
    /\ AllBeamsConverted("S1", UnitsM, UnitsMM)
    /\ trk.done = Beams
    /\ heap.unit["S1"] = UnitsMM
    /\ heap.dims["S1"]["h"] = 1000 * heap0.dims["S1"]["h"]

\* C5: during a unit conversion the unit field of the entity holds the old
\* unit while each attribute and sub-entity is rescaled, and the assignment of
\* the new unit is the last statement of the setter.
C5_UnitAssignedLast ==
    \A i \in 1..Len(last.log) :
        /\ last.log[i].step # "_units" => last.log[i].now = last.log[i].old
        /\ last.log[i].step = "_units" =>
              \A j \in (i + 1)..Len(last.log) : last.log[j].self # last.log[i].self

C5_Witness ==
    /\ last.cls = "Wall"
    /\ last.err = "none"
    /\ Len(last.log) > 2
    /\ last.log[Len(last.log)].step = "_units"
    /\ last.log[Len(last.log) - 1].now = last.old
    /\ heap.unit["W"] = last.value
    /\ last.value # last.old
    /\ heap.wall.height = 1000 * heap0.wall.height
    /\ Len(heap.wall.inserts) = 2
    /\ \A i \in 1..2 :
          /\ heap.wall.inserts[i].unit = last.value
          /\ heap.wall.inserts[i].width = 1000 * heap0.wall.inserts[i].width
          /\ heap.wall.pens[i].unit = last.value
          /\ heap.wall.openings[i].ma = MulSeq(heap0.wall.openings[i].ma, F1000)

\* a unit the unit system does not know
Unrecognized(value) == value.k = "str" /\ ~is_valid_unit(value.v)

\* C6: setting the unit of a Beam, Plate, Wall or Section to an unrecognized
\* unit fails before anything is modified: every length and every unit of the
\* entity and of its sub-entities is as before the call.
C6_UnrecognizedUnitFailsClean ==
    (last.cls # "none" /\ Unrecognized(last.value)) =>
        last.err # "none" /\ last.same

C6_Witness ==
    /\ last.cls = "Beam"
    /\ Unrecognized(last.value)
    /\ last.err = "ValueError"
    /\ ~last.fresh
    /\ heap # heap0

(***************************************************************************)
(* The pure functions of Units, applied to bounded inputs                  *)
(***************************************************************************)
\* longest unit string tried
MaxStrLen == 2
Alphabet == {"m", "M", "c", " "}
StrInputs == UNION {[1..n -> Alphabet] : n \in 0..MaxStrLen}
\* the arguments tried for get_scale_factor
UnitArgs == Units \cup {NoneV, Str(<<"m">>)}

UnitsInit ==
    /\ \E s \in StrInputs, a \in UnitArgs, b \in UnitArgs :
          uq = [IdleUq EXCEPT !.s = s, !.a = a, !.b = b]
    /\ cu = UnitsM
    /\ scene = "none"
    /\ heap = Construct(UnitsM, 1)
    /\ heap0 = heap
    /\ last = IdleLast
    /\ trk = IdleTrk
    /\ fin = IdleFin
    /\ bm = IdleBm
    /\ jw = IdleJw
    /\ cb = IdleCb
    /\ sp = IdleSp
    /\ co = IdleCo
    /\ rf = IdleRf
    /\ sid = IdleSid
    /\ ln = IdleLn
    /\ wsg = IdleWsg

CallFromStr ==
    /\ uq.op = "none"
    /\ uq' = [uq EXCEPT !.op = "from_str",
                        !.raised = from_str(uq.s).raised,
                        !.ret = from_str(uq.s).ret]
    /\ UNCHANGED <<cu, scene, heap, heap0, last, trk, fin, bm, jw, cb, sp, co, rf, sid, ln, wsg>>

CallIsValidUnit ==
    /\ uq.op = "none"
    /\ uq' = [uq EXCEPT !.op = "is_valid_unit", !.valid = is_valid_unit(uq.s)]
    /\ UNCHANGED <<cu, scene, heap, heap0, last, trk, fin, bm, jw, cb, sp, co, rf, sid, ln, wsg>>

CallGetScaleFactor ==
    /\ uq.op = "none"
    /\ uq' = [uq EXCEPT !.op = "get_scale_factor", !.fac = get_scale_factor(uq.a, uq.b)]
    /\ UNCHANGED <<cu, scene, heap, heap0, last, trk, fin, bm, jw, cb, sp, co, rf, sid, ln, wsg>>

UnitsNext == CallFromStr \/ CallIsValidUnit \/ CallGetScaleFactor

UnitsSpec == UnitsInit /\ [][UnitsNext]_vars

\* C7: Units.get_scale_factor returns a scale factor for every ordered pair of
\* units, never a missing value, and returns 1.0 for every pair (A, A).
C7_ScaleFactorTotal ==
    (uq.op = "get_scale_factor" /\ uq.a \in Units /\ uq.b \in Units) =>
        /\ uq.fac # NoneF
        /\ uq.a = uq.b => uq.fac = F1

\* s equals, case-insensitively, the value of a member of Units
MatchesUnitValue(s) ==
    \E i \in 1..Len(UnitsMembers) :
        /\ Len(s) = Len(UnitsMembers[i].v)
        /\ \A j \in 1..Len(s) : LowerChar(s[j]) = LowerChar(UnitsMembers[i].v[j])

\* C8: Units.from_str raises InvalidUnit exactly for the strings that match no
\* unit value case-insensitively, and so exactly when is_valid_unit is false.
C8_FromStrRaisesIffInvalid ==
    uq.op = "from_str" =>
        /\ (uq.raised = "InvalidUnit") <=> ~MatchesUnitValue(uq.s)
        /\ (uq.raised = "InvalidUnit") <=> ~is_valid_unit(uq.s)

C8_Witness ==
    /\ uq.op = "from_str"
    /\ uq.s = <<"M", "m">>
    /\ uq.raised = "none"
    /\ is_valid_unit(uq.s)

(***************************************************************************)
(* The frame solver.  calc_zvec, calc_yvec and the axis-angle rotation     *)
(* stand for ada.core.vector_utils, written from the contract of the       *)
(* frame solver.                                                           *)
(***************************************************************************)
\* calc_zvec(xvec): global Z, or global X when xvec is parallel to Z
calc_zvec(xvec) ==
    IF xvec[1] = 0 /\ xvec[2] = 0 THEN <<VS, 0, 0>> ELSE <<0, 0, VS>>

\* calc_yvec(xvec, up) = normalize(cross(xvec, up))
calc_yvec(xvec, up) == unit_vector(Cross(xvec, up))

\* cos and sin of a multiple of 90 degrees
CosD(a) == IF a % 360 = 0 THEN 1 ELSE IF a % 360 = 180 THEN -1 ELSE 0
SinD(a) == IF a % 360 = 90 THEN 1 ELSE IF a % 360 = 270 THEN -1 ELSE 0

\* Quaternion(axis=k, degrees=a).rotation_matrix applied to v
Rotate(v, k, a) ==
    LET kxv == Cross(k, v)
        kv == RDiv(Dot(k, v), VS)
    IN  IF IsNaN(v) \/ IsNaN(k) THEN <<NaN, NaN, NaN>>
        ELSE [i \in 1..3 |->
                v[i] * CosD(a) + kxv[i] * SinD(a) + RDiv(k[i] * kv, VS) * (1 - CosD(a))]

(***************************************************************************)
(* ada/concepts/structural.py: Beam.__init__ (orientation), n1/n2 setters  *)
(***************************************************************************)
\* tol = 1e-3 of Beam.__init__, in fixed point
UpTol == VS \div 1000

\* roundoff(x) rounds to Settings.precision = 6 decimals: a fixed-point
\* component carries three decimals and is left as it is; nan stays nan.

\* the frame Beam.__init__ stores for end positions n1, n2 (in whole length
\* units), the up argument (<<>> for None, else in fixed point) and the angle
BeamOrientation(n1, n2, up, angle) ==
    LET xvec == unit_vector(Fixed(Sub(n2, n1)))
        gup == calc_zvec(xvec)
    IN  IF up = <<>>
        THEN LET up1 == IF angle # 0 THEN Rotate(gup, xvec, angle) ELSE gup
             IN  [status |-> "ok", xvec |-> xvec, yvec |-> calc_yvec(xvec, up1),
                  up |-> up1, angle |-> angle]
        ELSE IF Len(up) # 3
        THEN [status |-> "ValueError", xvec |-> <<>>, yvec |-> <<>>, up |-> <<>>,
              angle |-> angle]
        \* a comparison with nan is False
        ELSE IF ~IsNaN(xvec) /\ vector_length(Sub(xvec, up)) < UpTol
        THEN [status |-> "ValueError", xvec |-> <<>>, yvec |-> <<>>, up |-> <<>>,
              angle |-> angle]
        ELSE \* angle = rad2deg(angle_between(up, yvec)); yvec is normal to up
             [status |-> "ok", xvec |-> xvec, yvec |-> calc_yvec(xvec, up),
              up |-> up,
              angle |-> IF IsNaN(calc_yvec(xvec, up)) THEN NaN ELSE 90]

\* Beam(name, n1, n2, ..., up=up, angle=angle)
BeamCtor(f) ==
    LET o == BeamOrientation(f.n1, f.n2, f.up, f.angle)
    IN  [status |-> o.status, n1 |-> f.n1, n2 |-> f.n2,
         xvec |-> o.xvec, yvec |-> o.yvec, up |-> o.up, angle |-> o.angle]

\* the end positions, up hints (in whole units) and angles tried
Points == {<<0, 0, 0>>, <<1, 0, 0>>, <<0, 0, 2>>, <<3, 4, 0>>, <<1, 1, 1>>}
UpHints == {<<0, 0, 1>>, <<0, 0, 2>>, <<0, 1, 0>>, <<1, 0, 1>>, <<1, 0, 0>>,
            <<-1, 0, 0>>, <<2, 0, 0>>}
UpArgs == {<<>>, <<0, VS>>} \cup {Fixed(u) : u \in UpHints}
Angles == {0, 90, 180}

FrameInit ==
    /\ \E n1 \in Points, n2 \in Points, up \in UpArgs, angle \in Angles :
          fin = [n1 |-> n1, n2 |-> n2, up |-> up, angle |-> angle]
    /\ bm = IdleBm
    /\ jw = IdleJw
    /\ cb = IdleCb
    /\ sp = IdleSp
    /\ co = IdleCo
    /\ rf = IdleRf
    /\ sid = IdleSid
    /\ ln = IdleLn
    /\ wsg = IdleWsg
    /\ cu = UnitsM
    /\ scene = "none"
    /\ heap = Construct(UnitsM, 1)
    /\ heap0 = heap
    /\ last = IdleLast
    /\ trk = IdleTrk
    /\ uq = IdleUq

BeamInit ==
    /\ bm.status = "none"
    /\ bm' = BeamCtor(fin)
    /\ UNCHANGED <<uq, cu, scene, heap, heap0, last, trk, fin, jw, cb, sp, co, rf, sid, ln, wsg>>

\* Beam.n1 setter: self._n1 = value
SetN1 ==
    /\ bm.status = "ok"
    /\ \E p \in Points : bm' = [bm EXCEPT !.n1 = p]
    /\ UNCHANGED <<uq, cu, scene, heap, heap0, last, trk, fin, jw, cb, sp, co, rf, sid, ln, wsg>>

\* Beam.n2 setter: self._n2 = value
SetN2 ==
    /\ bm.status = "ok"
    /\ \E p \in Points : bm' = [bm EXCEPT !.n2 = p]
    /\ UNCHANGED <<uq, cu, scene, heap, heap0, last, trk, fin, jw, cb, sp, co, rf, sid, ln, wsg>>

FrameNext == BeamInit \/ SetN1 \/ SetN2

FrameSpec == FrameInit /\ [][FrameNext]_vars

\* tolerance of the fixed-point frame checks: 0.004 on a product of two
\* fixed-point unit vectors
FrameTol == 4 * VS

IsUnit(v) == ~IsNaN(v) /\ Abs(Dot(v, v) - VS * VS) <= FrameTol
Orthogonal(a, b) == ~IsNaN(a) /\ ~IsNaN(b) /\ Abs(Dot(a, b)) <= FrameTol

\* C9: in every reachable state of a Beam, also after n1 or n2 has been
\* replaced through the setters, xvec is the unit vector from n1 to n2.
C9_XvecFollowsNodes ==
    bm.status = "ok" =>
        /\ IsUnit(bm.xvec)
        /\ bm.xvec = unit_vector(Fixed(Sub(bm.n2, bm.n1)))

\* C10: for every accepted constructor input the stored xvec, yvec and up are
\* pairwise orthogonal and each has unit length.
C10_FrameOrthonormal ==
    (bm.status = "ok" /\ fin.n1 # fin.n2 /\ bm.n1 = fin.n1 /\ bm.n2 = fin.n2) =>
        /\ IsUnit(bm.xvec) /\ IsUnit(bm.yvec) /\ IsUnit(bm.up)
        /\ Orthogonal(bm.xvec, bm.yvec)
        /\ Orthogonal(bm.xvec, bm.up)
        /\ Orthogonal(bm.yvec, bm.up)

\* C11: constructing a Beam whose two end positions are the same point fails
\* with an error, so no Beam with an undefined xvec is ever created.
C11_DegenerateBeamRejected ==
    (bm.status # "none" /\ fin.n1 = fin.n2) =>
        bm.status \notin {"none", "ok"} /\ ~IsNaN(bm.xvec)

\* u is a non-zero multiple of the direction d
ParallelTo(u, d) ==
    /\ u # <<0, 0, 0>>
    /\ u[2] * d[3] = u[3] * d[2]
    /\ u[3] * d[1] = u[1] * d[3]
    /\ u[1] * d[2] = u[2] * d[1]

\* C12: constructing a Beam with an explicit up vector parallel to the member
\* axis (equal or opposite to xvec, or any non-zero multiple of it) fails with
\* an error, and so does an up vector that is not of length 3.
C12_ParallelUpRejected ==
    (bm.status # "none" /\ fin.n1 # fin.n2 /\ fin.up # <<>>
        /\ (Len(fin.up) # 3 \/ ParallelTo(fin.up, Sub(fin.n2, fin.n1)))) =>
            bm.status = "ValueError"

(***************************************************************************)
(* ada/concepts/structural.py: Beam.calc_con_points                        *)
(*                                                                         *)
(* Positions are whole numbers of a length unit and point_tol is an        *)
(* argument of the call, so every comparison of lengths is made exactly,   *)
(* on the squares.                                                         *)
(***************************************************************************)
\* vector_length(p - q) ** 2
D2(p, q) == Dot(Sub(p, q), Sub(p, q))

\* p1 += self.e1 on the array held by the node; e = <<>> stands for None
AddEcc(p, e) == IF e = <<>> THEN p ELSE [i \in 1..3 |-> p[i] + e[i]]

\* points.index(p): the first position of p in points
IndexOf(points, p) ==
    CHOOSE i \in 1..Len(points) : points[i] = p /\ \A j \in 1..(i - 1) : points[j] # p

\* point_tol < vector_length(end - centre) < mem.length * 0.9
EccentricEnd(end, mem, centre, tol) ==
    /\ tol * tol < D2(end, centre)
    /\ 100 * D2(end, centre) < 81 * D2(mem.n1, mem.n2)

\* is_mem_eccentric(mem, centre): the end tested last wins
is_mem_eccentric(mem, centre, tol) ==
    IF EccentricEnd(mem.n2, mem, centre, tol)
    THEN [is_ecc |-> TRUE, end |-> mem.n2]
    ELSE IF EccentricEnd(mem.n1, mem, centre, tol)
    THEN [is_ecc |-> TRUE, end |-> mem.n1]
    ELSE [is_ecc |-> FALSE, end |-> <<>>]

\* the ends appended to points for the beams con.beams[k..] of joint con
RECURSIVE EccEnds(_, _, _)
EccEnds(con, k, tol) ==
    IF k > Len(con.beams) THEN <<>>
    ELSE LET m == con.beams[k]
             r == is_mem_eccentric(m, con.centre, tol)
         IN  (IF m.name # "self" /\ r.is_ecc THEN <<r.end>> ELSE <<>>)
             \o EccEnds(con, k + 1, tol)

\* points after the eccentricity discovery
Candidates(joints, tol) ==
    [i \in 1..Len(joints) |-> joints[i].centre]
    \o (IF Len(joints) = 1 /\ joints[1].main THEN EccEnds(joints[1], 1, tol) ELSE <<>>)

\* sort_points_by_dist(a, points), as positions of points: a stable sort by
\* the distance from a
RECURSIVE InsertByDist(_, _, _, _)
InsertByDist(a, points, s, k) ==
    IF s = <<>> THEN <<k>>
    ELSE IF D2(points[Head(s)], a) <= D2(points[k], a)
    THEN <<Head(s)>> \o InsertByDist(a, points, Tail(s), k)
    ELSE <<k>> \o s

RECURSIVE sort_points_by_dist(_, _, _)
sort_points_by_dist(a, points, n) ==
    IF n = 0 THEN <<>>
    ELSE InsertByDist(a, points, sort_points_by_dist(a, points, n - 1), n)

\* the for loop of calc_con_points from the i-th sorted point on; st holds
\* the beam (n1, n2, connected ends), prev_p (as a position of points, 0 for
\* None) and midpoints (as positions of points)
RECURSIVE ConLoop(_, _, _, _)
ConLoop(st, c, order, i) ==
    IF i > Len(order) \/ st.status # "ok" THEN st
    ELSE LET p == c.points[order[i]]
             \* bmlen = self.length moves the positions by e1 and e2
             n1 == AddEcc(st.n1, c.e1)
             n2 == AddEcc(st.n2, c.e2)
             s1 == [st EXCEPT !.n1 = n1, !.n2 = n2]
             bmlen2 == D2(n1, n2)
             \* a and b are the arrays of the nodes
             vlena2 == D2(p, n1)
             vlenb2 == D2(p, n2)
             idx == IndexOf(c.points, p)
             tol2 == c.tol * c.tol
         IN  IF st.prev # 0 /\ D2(p, c.points[st.prev]) < tol2
             THEN ConLoop(s1, c, order, i + 1)
             ELSE IF vlena2 < tol2
             THEN IF idx > c.njoints
                  THEN [s1 EXCEPT !.status = "IndexError"]
                  ELSE ConLoop([s1 EXCEPT !.end1 = idx, !.prev = order[i]], c, order, i + 1)
             ELSE IF vlenb2 < tol2
             THEN IF idx > c.njoints
                  THEN [s1 EXCEPT !.status = "IndexError"]
                  ELSE ConLoop([s1 EXCEPT !.end2 = idx, !.prev = order[i]], c, order, i + 1)
             ELSE IF vlena2 > bmlen2 \/ vlenb2 > bmlen2
             THEN ConLoop([s1 EXCEPT !.prev = order[i]], c, order, i + 1)
             ELSE ConLoop([s1 EXCEPT !.prev = order[i], !.mid = Append(@, order[i])],
                          c, order, i + 1)

\* calc_con_points walking the points in their input order
calc_con_points_unsorted(b, tol) ==
    LET points == Candidates(b.joints, tol)
        c == [points |-> points, njoints |-> Len(b.joints), tol |-> tol,
              e1 |-> b.e1, e2 |-> b.e2]
        st == ConLoop([status |-> "ok", n1 |-> b.n1, n2 |-> b.n2, prev |-> 0,
                       end1 |-> b.end1, end2 |-> b.end2, mid |-> <<>>],
                      c, [i \in 1..Len(points) |-> i], 1)
    IN  [status |-> st.status, n1 |-> st.n1, n2 |-> st.n2,
         end1 |-> st.end1, end2 |-> st.end2,
         points |-> points,
         mid |-> IF st.status = "ok" THEN st.mid ELSE <<>>]

\* self.calc_con_points(point_tol=tol) on beam b = [n1, n2, e1, e2, joints,
\* end1, end2]
calc_con_points(b, tol) ==
    LET points == Candidates(b.joints, tol)
        order == sort_points_by_dist(b.n1, points, Len(points))
        c == [points |-> points, njoints |-> Len(b.joints), tol |-> tol,
              e1 |-> b.e1, e2 |-> b.e2]
        st == ConLoop([status |-> "ok", n1 |-> b.n1, n2 |-> b.n2, prev |-> 0,
                       end1 |-> b.end1, end2 |-> b.end2, mid |-> <<>>],
                      c, order, 1)
    IN  [status |-> st.status, n1 |-> st.n1, n2 |-> st.n2,
         end1 |-> st.end1, end2 |-> st.end2,
         points |-> points,
         mid |-> IF st.status = "ok" THEN st.mid ELSE <<>>]

\* most joints connected to the beam
MaxJoints == 4

\* the beam whose connections are resolved, and the other members of a joint
SelfN1 == <<0, 0, 0>>
SelfN2 == <<4, 0, 0>>
SelfBeam == [name |-> "self", n1 |-> SelfN1, n2 |-> SelfN2]
OtherBeams ==
    {[name |-> "m1", n1 |-> <<0, 0, 0>>, n2 |-> <<0, 4, 0>>],
     [name |-> "m2", n1 |-> <<2, 2, 0>>, n2 |-> <<2, 12, 0>>],
     [name |-> "m3", n1 |-> <<2, 0, 0>>, n2 |-> <<2, 4, 0>>]}
\* most joints of a beam whose first joint has other members
MaxMemberJoints == 2
\* the first joint: whether self is its main member, and its beams
PlainJoint == [main |-> FALSE, beams |-> <<SelfBeam>>]
JointKinds(n) ==
    IF n > MaxMemberJoints THEN {PlainJoint}
    ELSE {PlainJoint, [main |-> TRUE, beams |-> <<SelfBeam>>]}
         \cup {[main |-> TRUE, beams |-> <<SelfBeam, m>>] : m \in OtherBeams}
         \cup {[main |-> FALSE, beams |-> <<SelfBeam, m>>] : m \in OtherBeams}
Centres == {<<0, 0, 0>>, <<4, 0, 0>>, <<2, 0, 0>>, <<10, 0, 0>>, <<1, 2, 0>>, <<2, 1, 0>>}
CentreSeqs == UNION {[1..n -> Centres] : n \in 0..MaxJoints}
EccArgs == {<<<<>>, <<>>>>, <<<<1, 0, 0>>, <<>>>>, <<<<>>, <<1, 0, 0>>>>}
Tols == {1, 3}

JointInit ==
    /\ \E cs \in CentreSeqs, e \in EccArgs, tol \in Tols :
         \E kind \in JointKinds(Len(cs)) :
          jw = [status |-> "none", n1 |-> SelfN1, n2 |-> SelfN2,
                e1 |-> e[1], e2 |-> e[2], tol |-> tol,
                joints |-> [i \in 1..Len(cs) |->
                              [centre |-> cs[i],
                               main |-> (i = 1 /\ kind.main),
                               beams |-> IF i = 1 THEN kind.beams ELSE <<SelfBeam>>]],
                end1 |-> 0, end2 |-> 0, points |-> <<>>, mid |-> <<>>]
    /\ bm = IdleBm
    /\ cb = IdleCb
    /\ sp = IdleSp
    /\ co = IdleCo
    /\ rf = IdleRf
    /\ sid = IdleSid
    /\ ln = IdleLn
    /\ wsg = IdleWsg
    /\ fin = IdleFin
    /\ cu = UnitsM
    /\ scene = "none"
    /\ heap = Construct(UnitsM, 1)
    /\ heap0 = heap
    /\ last = IdleLast
    /\ trk = IdleTrk
    /\ uq = IdleUq

CalcConPoints ==
    /\ jw.status = "none"
    /\ LET r == calc_con_points(jw, jw.tol)
       IN  jw' = [jw EXCEPT !.status = r.status, !.n1 = r.n1, !.n2 = r.n2,
                            !.end1 = r.end1, !.end2 = r.end2,
                            !.points = r.points, !.mid = r.mid]
    /\ UNCHANGED <<uq, cu, scene, heap, heap0, last, trk, fin, bm, cb, sp, co, rf, sid, ln, wsg>>

JointNext == CalcConPoints

JointSpec == JointInit /\ [][JointNext]_vars

\* the classes of a joint centre c, by the positions the beam had when
\* calc_con_points was called
AtEnd1(c) == D2(c, SelfN1) < jw.tol * jw.tol
AtEnd2(c) == ~AtEnd1(c) /\ D2(c, SelfN2) < jw.tol * jw.tol
OutOfRange(c) ==
    /\ ~AtEnd1(c) /\ ~AtEnd2(c)
    /\ \/ D2(c, SelfN1) > D2(SelfN1, SelfN2)
       \/ D2(c, SelfN2) > D2(SelfN1, SelfN2)
Interior(c) == ~AtEnd1(c) /\ ~AtEnd2(c) /\ ~OutOfRange(c)

\* the returned interior split points
MidPoints == [i \in 1..Len(jw.mid) |-> jw.points[jw.mid[i]]]

\* no joint centre lies within point_tol of another one
NoDuplicateCentres ==
    \A i, j \in 1..Len(jw.joints) :
        i # j => D2(jw.joints[i].centre, jw.joints[j].centre) >= jw.tol * jw.tol

\* C13: calc_con_points puts every non-duplicate joint centre into exactly
\* one class: at n1 -> bound as connected_end1; at n2 -> bound as
\* connected_end2; farther than the beam's length from either end ->
\* discarded; otherwise -> returned as an interior split point.
C13_CentresClassified ==
    (jw.status # "none" /\ NoDuplicateCentres) =>
        /\ jw.status = "ok"
        /\ \A i \in 1..Len(jw.joints) :
              LET c == jw.joints[i].centre
              IN  /\ AtEnd1(c) <=> jw.end1 = i
                  /\ AtEnd2(c) <=> jw.end2 = i
                  /\ Interior(c) <=> (\E k \in 1..Len(jw.mid) : jw.mid[k] = i)

\* C14: calc_con_points never raises; with no connected joints it returns an
\* empty list and leaves connected_end1 and connected_end2 unset.
C14_ConPointsNeverRaises ==
    jw.status # "none" =>
        /\ jw.status = "ok"
        /\ jw.joints = <<>> => (jw.mid = <<>> /\ jw.end1 = 0 /\ jw.end2 = 0)

\* C15: the interior split points returned by calc_con_points are ordered by
\* non-decreasing distance from the position n1 had when the call was made,
\* and candidates at equal distance keep their input order.
C15_MidPointsSorted ==
    jw.status = "ok" =>
        \A i, j \in 1..Len(jw.mid) :
            i < j =>
                /\ D2(MidPoints[i], SelfN1) <= D2(MidPoints[j], SelfN1)
                /\ D2(MidPoints[i], SelfN1) = D2(MidPoints[j], SelfN1)
                      => jw.mid[i] < jw.mid[j]

C15_Witness ==
    /\ jw.status = "ok"
    /\ MidPoints = <<<<2, 0, 0>>, <<1, 2, 0>>, <<2, 1, 0>>>>
    /\ jw.mid = <<3, 1, 2>>

\* C16: a candidate within point_tol of an accepted point is skipped as a
\* duplicate: no two consecutive returned split points are closer than
\* point_tol, and a joint centre that occurs twice among the joints yields at
\* most one split point.
C16_DuplicatesSkipped ==
    jw.status = "ok" =>
        /\ \A i \in 1..(Len(jw.mid) - 1) :
              D2(MidPoints[i], MidPoints[i + 1]) >= jw.tol * jw.tol
        /\ \A i, j \in 1..Len(jw.mid) : i # j => MidPoints[i] # MidPoints[j]

\* the end of member m nearest to, and the end farthest from, centre c
NearEnd(m, c) == IF D2(m.n1, c) <= D2(m.n2, c) THEN m.n1 ELSE m.n2
FarEnd(m, c) == IF D2(m.n1, c) <= D2(m.n2, c) THEN m.n2 ELSE m.n1

\* the far ends of the eccentric other members con.beams[k..] of joint con
RECURSIVE FarEndsOfEccentric(_, _, _)
FarEndsOfEccentric(con, k, tol) ==
    IF k > Len(con.beams) THEN <<>>
    ELSE LET m == con.beams[k]
         IN  (IF m.name # "self" /\ EccentricEnd(NearEnd(m, con.centre), m, con.centre, tol)
              THEN <<FarEnd(m, con.centre)>> ELSE <<>>)
             \o FarEndsOfEccentric(con, k + 1, tol)

\* C17: when the beam has exactly one joint and is its main member, the far
\* end of every eccentric other member of the joint (nearest end strictly
\* between point_tol and 90% of its length from the centre) is added to the
\* candidate points; otherwise no candidate is added.
C17_EccentricFarEndAdded ==
    jw.status # "none" =>
        jw.points =
            [i \in 1..Len(jw.joints) |-> jw.joints[i].centre]
            \o (IF Len(jw.joints) = 1 /\ jw.joints[1].main
                THEN FarEndsOfEccentric(jw.joints[1], 1, jw.tol) ELSE <<>>)

(***************************************************************************)
(* ada/concepts/structural.py: the cached bounding box of Beam and Plate   *)
(*                                                                         *)
(* The world holds beam B1 or the plate PL: N1, N2 and S1 are the objects  *)
(* B1 refers to as n1, n2 and section, cb holds its eccentricities, the    *)
(* cache field _bbox (<<>> for None) and the last bbox read.  A program    *)
(* reads bbox and uses one family of mutators, named by scene.             *)
(***************************************************************************)
Min(a, b) == IF a <= b THEN a ELSE b
Max(a, b) == IF a >= b THEN a ELSE b

\* BoundingBox(beam): the axis-aligned extents of the beam as it is now
BoundingBox(h, e1, e2) ==
    LET a == AddEcc(h.pos["N1"], e1)
        b == AddEcc(h.pos["N2"], e2)
        r == h.dims["S1"]["h"]
    IN  [p1 |-> [i \in 1..3 |-> Min(a[i], b[i]) - r],
         p2 |-> [i \in 1..3 |-> Max(a[i], b[i]) + r]]

\* the smallest and largest of the numbers s[i], i in idx
MinOf(s, idx) == CHOOSE x \in {s[i] : i \in idx} : \A i \in idx : x <= s[i]
MaxOf(s, idx) == CHOOSE x \in {s[i] : i \in idx} : \A i \in idx : x >= s[i]

\* self.poly.calc_bbox(self.t): the extents of the plate as it is now
calc_bbox(h) ==
    LET pts == h.poly["C_PL"].pts
        xs == {i \in 1..Len(pts) : i % 2 = 1}
        ys == {i \in 1..Len(pts) : i % 2 = 0}
    IN  [p1 |-> <<MinOf(pts, xs), MinOf(pts, ys), 0>>,
         p2 |-> <<MaxOf(pts, xs), MaxOf(pts, ys), h.plate_t>>]

\* the nodes, section heights and eccentricities given to the setters
NewN1 == {<<0, 0, 0>>, <<1, 1, 0>>}
NewN2 == {<<2, 0, 0>>, <<2, 3, 1>>}
NewH == {4, 6}
NewEcc == {<<0, 0, 1>>}

CacheScenes == {"nodes", "section", "eccentricity", "units", "plate"}

CacheInit ==
    /\ scene \in CacheScenes
    /\ cb = [status |-> IF scene = "plate" THEN "Plate" ELSE "Beam",
             e1 |-> <<>>, e2 |-> <<>>, bbox |-> <<>>,
             read |-> <<>>, op |-> "init", err |-> "none"]
    /\ cu = UnitsM
    /\ \E L \in 1..MaxBase : heap = Construct(cu, L)
    /\ heap0 = heap
    /\ last = IdleLast
    /\ trk = IdleTrk
    /\ uq = IdleUq
    /\ fin = IdleFin
    /\ bm = IdleBm
    /\ jw = IdleJw
    /\ sp = IdleSp
    /\ co = IdleCo
    /\ rf = IdleRf
    /\ sid = IdleSid
    /\ ln = IdleLn
    /\ wsg = IdleWsg

\* Beam.bbox
BeamBbox ==
    /\ cb.status = "Beam"
    /\ LET box == IF cb.bbox = <<>> THEN BoundingBox(heap, cb.e1, cb.e2) ELSE cb.bbox
       IN  cb' = [cb EXCEPT !.bbox = box, !.read = box, !.op = "bbox", !.err = "none"]
    /\ UNCHANGED <<uq, cu, scene, heap, heap0, last, trk, fin, bm, jw, sp, co, rf, sid, ln, wsg>>

\* Beam.n1 = Node(p, units=Units.M)
BeamSetN1 ==
    /\ cb.status = "Beam"
    /\ scene = "nodes"
    /\ \E p \in NewN1 :
          heap' = [heap EXCEPT !.pos["N1"] = p, !.unit["N1"] = UnitsM]
    /\ cb' = [cb EXCEPT !.op = "n1", !.err = "none"]
    /\ UNCHANGED <<uq, cu, scene, heap0, last, trk, fin, bm, jw, sp, co, rf, sid, ln, wsg>>

\* Beam.n2 = Node(p, units=Units.M)
BeamSetN2 ==
    /\ cb.status = "Beam"
    /\ scene = "nodes"
    /\ \E p \in NewN2 :
          heap' = [heap EXCEPT !.pos["N2"] = p, !.unit["N2"] = UnitsM]
    /\ cb' = [cb EXCEPT !.op = "n2", !.err = "none"]
    /\ UNCHANGED <<uq, cu, scene, heap0, last, trk, fin, bm, jw, sp, co, rf, sid, ln, wsg>>

\* Beam.section = a section of height x, in metres
BeamSetSection ==
    /\ cb.status = "Beam"
    /\ scene = "section"
    /\ \E x \in NewH :
          heap' = [heap EXCEPT !.dims["S1"] = [heap0.dims["S1"] EXCEPT !["h"] = x],
                               !.unit["S1"] = UnitsM]
    /\ cb' = [cb EXCEPT !.op = "section", !.err = "none"]
    /\ UNCHANGED <<uq, cu, scene, heap0, last, trk, fin, bm, jw, sp, co, rf, sid, ln, wsg>>

\* Beam.e1 = value: self._e1 = np.array(value)
BeamSetE1 ==
    /\ cb.status = "Beam"
    /\ scene = "eccentricity"
    /\ \E e \in NewEcc : cb' = [cb EXCEPT !.e1 = e, !.op = "e1", !.err = "none"]
    /\ UNCHANGED <<uq, cu, scene, heap, heap0, last, trk, fin, bm, jw, sp, co, rf, sid, ln, wsg>>

\* Beam.e2 = value: self._e2 = np.array(value)
BeamSetE2 ==
    /\ cb.status = "Beam"
    /\ scene = "eccentricity"
    /\ \E e \in NewEcc : cb' = [cb EXCEPT !.e2 = e, !.op = "e2", !.err = "none"]
    /\ UNCHANGED <<uq, cu, scene, heap, heap0, last, trk, fin, bm, jw, sp, co, rf, sid, ln, wsg>>

\* Beam.units = value
BeamSetUnitsCached ==
    /\ cb.status = "Beam"
    /\ scene = "units"
    /\ \E value \in Units :
          LET r == BeamUnits(heap, "B1", value)
          IN  /\ InModel(r.h)
              /\ heap' = r.h
              /\ cb' = [cb EXCEPT !.op = "units", !.err = r.err]
    /\ UNCHANGED <<uq, cu, scene, heap0, last, trk, fin, bm, jw, sp, co, rf, sid, ln, wsg>>

\* Plate.bbox
PlateBbox ==
    /\ cb.status = "Plate"
    /\ LET box == IF cb.bbox = <<>> THEN calc_bbox(heap) ELSE cb.bbox
       IN  cb' = [cb EXCEPT !.bbox = box, !.read = box, !.op = "bbox", !.err = "none"]
    /\ UNCHANGED <<uq, cu, scene, heap, heap0, last, trk, fin, bm, jw, sp, co, rf, sid, ln, wsg>>

\* Plate.units = value
PlateSetUnitsCached ==
    /\ cb.status = "Plate"
    /\ \E value \in Units :
          LET r == PlateUnits(heap, "PL", value)
          IN  /\ InModel(r.h)
              /\ heap' = r.h
              /\ cb' = [cb EXCEPT !.op = "units", !.err = r.err]
    /\ UNCHANGED <<uq, cu, scene, heap0, last, trk, fin, bm, jw, sp, co, rf, sid, ln, wsg>>

CacheNext ==
    \/ BeamBbox \/ BeamSetN1 \/ BeamSetN2 \/ BeamSetSection \/ BeamSetE1
    \/ BeamSetE2 \/ BeamSetUnitsCached \/ PlateBbox \/ PlateSetUnitsCached

CacheSpec == CacheInit /\ [][CacheNext]_vars

\* C18: the cached bounding box of a beam or plate is never stale: a bbox
\* read returns the extents of the geometry as it is at the time of the read.
C18_BboxNeverStale ==
    cb.op = "bbox" =>
        cb.read = IF cb.status = "Beam" THEN BoundingBox(heap, cb.e1, cb.e2)
                  ELSE calc_bbox(heap)

(***************************************************************************)
(* ada/sections/concept.py: build_section_profile, SectionProfile, and the *)
(* readers of a profile's outer curve                                      *)
(***************************************************************************)
\* a Python list
List(s) == [k |-> "list", v |-> s]

\* SectionCat.get_shape_type(sec): the base type of the section
ShapeTypes == {"iprofile", "tprofile", "box", "tubular", "circular", "channel",
               "angular", "flatbar", "poly", "general"}
\* SectionCat.tubular + SectionCat.circular + SectionCat.general
NoCurveTypes == {"tubular", "circular", "general"}
\* the keys of build_map
BuilderTypes == {"angular", "iprofile", "box", "flatbar", "channel"}

\* SectionProfile(sec, is_solid): every other field has its default
SectionProfile(sec, is_solid) ==
    [sec |-> sec, is_solid |-> is_solid, outer_curve |-> "None",
     inner_curve |-> "None", outer_curve_disconnected |-> NoneV,
     inner_curve_disconnected |-> NoneV, disconnected |-> "None",
     shell_thickness_map |-> NoneV]

\* the shell_thickness_map a builder records
ThicknessMap(sec) ==
    IF sec.shape = "iprofile"
    THEN List(<<<<"web", 8>>, <<"top_flange", 13>>, <<"btn_flange", 13>>>>)
    ELSE List(<<<<"plate_1", 5>>, <<"plate_2", 5>>>>)

\* profile_builder.<type>(sec, is_solid): one closed outer curve, or the
\* list of outer curves of a section whose outline is not one loop
ProfileBuilder(sec, is_solid) ==
    IF sec.split
    THEN [SectionProfile(sec, is_solid) EXCEPT
            !.outer_curve_disconnected = List(<<"outer_1", "outer_2">>),
            !.disconnected = "True",
            !.shell_thickness_map = ThicknessMap(sec)]
    ELSE [SectionProfile(sec, is_solid) EXCEPT
            !.outer_curve = "outer",
            !.disconnected = "False",
            !.shell_thickness_map = ThicknessMap(sec)]

\* build_section_profile with the polygon test made before the dispatch
build_section_profile_polyFirst(sec, is_solid) ==
    IF sec.shape \in NoCurveTypes
    THEN [err |-> "none", profile |-> SectionProfile(sec, is_solid)]
    ELSE IF sec.poly_outer = "None"
    THEN [err |-> "ValueError", profile |-> SectionProfile(sec, is_solid)]
    ELSE [err |-> "none",
          profile |-> [SectionProfile(sec, is_solid) EXCEPT
                         !.outer_curve = sec.poly_outer, !.disconnected = "False"]]

\* build_section_profile(sec, is_solid)
build_section_profile(sec, is_solid) ==
    IF sec.shape \in NoCurveTypes
    THEN [err |-> "none", profile |-> SectionProfile(sec, is_solid)]
    ELSE IF sec.shape \notin BuilderTypes /\ sec.poly_outer = "None"
    THEN [err |-> "ValueError", profile |-> SectionProfile(sec, is_solid)]
    ELSE IF sec.shape \in BuilderTypes
    THEN [err |-> "none", profile |-> ProfileBuilder(sec, is_solid)]
    ELSE [err |-> "none",
          profile |-> [SectionProfile(sec, is_solid) EXCEPT
                         !.outer_curve = sec.poly_outer, !.disconnected = "False"]]

\* what a reader got: the exception, and the curves it took the points of
Read(err, ot) == [err |-> err, ot |-> ot, res |-> <<>>]

\* Beam.get_outer_points, up to the points of the outer curve(s)
get_outer_points(sec) ==
    LET b == build_section_profile(sec, FALSE)
        pr == b.profile
    IN  IF b.err # "none" THEN Read(b.err, <<>>)
        ELSE IF pr.disconnected = "True"
        THEN IF pr.outer_curve_disconnected = NoneV THEN Read("TypeError", <<>>)
             ELSE Read("none", pr.outer_curve_disconnected.v)
        ELSE IF pr.outer_curve = "None" THEN Read("AttributeError", <<>>)
        ELSE Read("none", <<pr.outer_curve>>)

\* get_bm_section_curve(bm)
get_bm_section_curve(sec) ==
    LET b == build_section_profile(sec, TRUE)
        pr == b.profile
    IN  IF b.err # "none" THEN Read(b.err, <<>>)
        ELSE IF pr.outer_curve = "None" THEN Read("AttributeError", <<>>)
        ELSE Read("none", <<pr.outer_curve>>)

\* SectionCat.is_i_profile(sec)
is_i_profile(sec) == sec.shape = "iprofile"

\* get_coincident_cog for the curve at position index, from the k-th of
\* cogs_and_normals on: a cog is [par, near], par when its normal is parallel
\* to placement.xdir, near the positions of the curves it coincides with
RECURSIVE get_coincident_cog(_, _, _, _)
get_coincident_cog(pr, cogs, index, k) ==
    IF k > Len(cogs) THEN [err |-> "none", res |-> <<>>]
    ELSE LET map == pr.shell_thickness_map
             webs == IF map = NoneV THEN {}
                     ELSE {i \in 1..Len(map.v) : map.v[i][1] = "web"}
         IN  IF is_i_profile(pr.sec) /\ cogs[k].par /\ map = NoneV
             THEN [err |-> "TypeError", res |-> <<>>]
             ELSE IF is_i_profile(pr.sec) /\ cogs[k].par /\ webs # {}
             THEN [err |-> "none",
                   res |-> <<map.v[CHOOSE i \in webs : \A j \in webs : i <= j]>>]
             ELSE IF index \in cogs[k].near
             THEN IF map = NoneV THEN [err |-> "TypeError", res |-> <<>>]
                  ELSE IF index > Len(map.v) THEN [err |-> "IndexError", res |-> <<>>]
                  ELSE [err |-> "none", res |-> <<map.v[index]>>]
             ELSE get_coincident_cog(pr, cogs, index, k + 1)

\* the for loop of get_thickness_assignments_for_cogs from curve i on
RECURSIVE ThicknessLoop(_, _, _, _, _)
ThicknessLoop(pr, ot, cogs, i, res_map) ==
    IF i > Len(ot) THEN [err |-> "none", ot |-> ot, res |-> res_map]
    ELSE LET r == get_coincident_cog(pr, cogs, i, 1)
         IN  IF r.err # "none" THEN [err |-> r.err, ot |-> ot, res |-> <<>>]
             ELSE IF r.res = <<>> THEN [err |-> "ValueError", ot |-> ot, res |-> <<>>]
             ELSE ThicknessLoop(pr, ot, cogs, i + 1, res_map \o r.res)

\* SectionProfile.get_thickness_assignments_for_cogs(cogs_n_normals, ...)
get_thickness_assignments_for_cogs(pr, cogs) ==
    LET ot == IF pr.disconnected = "False" THEN List(<<pr.outer_curve>>)
              ELSE pr.outer_curve_disconnected
    IN  IF ot = NoneV THEN Read("TypeError", <<>>)
        ELSE ThicknessLoop(pr, ot.v, cogs, 1, <<>>)

MaxCogs == 2

RECURSIVE SeqsUpTo(_, _)
SeqsUpTo(S, n) ==
    IF n = 0 THEN {<<>>}
    ELSE LET shorter == SeqsUpTo(S, n - 1)
         IN  shorter \cup {Append(s, x) : s \in {q \in shorter : Len(q) = n - 1}, x \in S}

\* the sections: their base type, their poly_outer, and whether the
\* builder's outline comes in separate loops
Secs ==
    {[shape |-> sh, poly_outer |-> po, split |-> d] :
        sh \in ShapeTypes, po \in {"None", "poly"}, d \in BOOLEAN}
    \ {s \in [shape : ShapeTypes, poly_outer : {"None", "poly"}, split : BOOLEAN] :
         s.split /\ s.shape \notin BuilderTypes}

\* the (cog, normal) pairs handed to get_thickness_assignments_for_cogs
Cogs == [par : BOOLEAN, near : SUBSET {1, 2}]

ProfileInit ==
    /\ scene = "none"
    /\ \E sec \in Secs, cogs \in SeqsUpTo(Cogs, MaxCogs) :
          sp = [status |-> "Section", sec |-> sec, cogs |-> cogs, op |-> "init",
                err |-> "none", profile |-> SectionProfile(sec, FALSE),
                ot |-> <<>>, res |-> <<>>]
    /\ cu = UnitsM
    /\ heap = Construct(cu, 1)
    /\ heap0 = heap
    /\ last = IdleLast
    /\ trk = IdleTrk
    /\ uq = IdleUq
    /\ fin = IdleFin
    /\ bm = IdleBm
    /\ jw = IdleJw
    /\ cb = IdleCb
    /\ co = IdleCo
    /\ rf = IdleRf
    /\ sid = IdleSid
    /\ ln = IdleLn
    /\ wsg = IdleWsg

\* Section.get_section_profile(is_solid)
GetSectionProfile ==
    /\ sp.status = "Section"
    /\ \E is_solid \in BOOLEAN :
          LET b == build_section_profile(sp.sec, is_solid)
          IN  sp' = [sp EXCEPT !.op = "build", !.err = b.err, !.profile = b.profile,
                               !.ot = <<>>, !.res = <<>>]
    /\ UNCHANGED <<uq, cu, scene, heap, heap0, last, trk, fin, bm, jw, cb, co, rf, sid, ln, wsg>>

\* Beam.get_outer_points()
GetOuterPoints ==
    /\ sp.status = "Section"
    /\ LET r == get_outer_points(sp.sec)
       IN  sp' = [sp EXCEPT !.op = "get_outer_points", !.err = r.err,
                            !.profile = build_section_profile(sp.sec, FALSE).profile,
                            !.ot = r.ot, !.res = r.res]
    /\ UNCHANGED <<uq, cu, scene, heap, heap0, last, trk, fin, bm, jw, cb, co, rf, sid, ln, wsg>>

\* get_bm_section_curve(bm)
GetBmSectionCurve ==
    /\ sp.status = "Section"
    /\ LET r == get_bm_section_curve(sp.sec)
       IN  sp' = [sp EXCEPT !.op = "get_bm_section_curve", !.err = r.err,
                            !.profile = build_section_profile(sp.sec, TRUE).profile,
                            !.ot = r.ot, !.res = r.res]
    /\ UNCHANGED <<uq, cu, scene, heap, heap0, last, trk, fin, bm, jw, cb, co, rf, sid, ln, wsg>>

\* SectionProfile.get_thickness_assignments_for_cogs(cogs, ...) on the
\* profile of a section that has one
GetThicknessAssignments ==
    /\ sp.status = "Section"
    /\ \E is_solid \in BOOLEAN :
          LET b == build_section_profile(sp.sec, is_solid)
              r == get_thickness_assignments_for_cogs(b.profile, sp.cogs)
          IN  /\ b.err = "none"
              /\ sp' = [sp EXCEPT !.op = "get_thickness_assignments_for_cogs",
                                  !.err = r.err, !.profile = b.profile,
                                  !.ot = r.ot, !.res = r.res]
    /\ UNCHANGED <<uq, cu, scene, heap, heap0, last, trk, fin, bm, jw, cb, co, rf, sid, ln, wsg>>

ProfileNext ==
    \/ GetSectionProfile \/ GetOuterPoints \/ GetBmSectionCurve
    \/ GetThicknessAssignments

ProfileSpec == ProfileInit /\ [][ProfileNext]_vars

\* C19: build_section_profile returns a profile without curves for tubular,
\* circular and general sections; the matching builder's result for I-profile,
\* box, channel, angular and flat-bar sections; and for any other type a
\* connected profile whose outer curve is the section's poly_outer, or an
\* unsupported-type error when the section has no poly_outer.
C19_ProfileDispatch ==
    sp.op = "build" =>
        LET sec == sp.sec
            pr == sp.profile
        IN  /\ sec.shape \in {"tubular", "circular", "general"} =>
                 /\ sp.err = "none"
                 /\ pr.outer_curve = "None" /\ pr.inner_curve = "None"
                 /\ pr.outer_curve_disconnected = NoneV
                 /\ pr.inner_curve_disconnected = NoneV
            /\ sec.shape \in {"iprofile", "box", "channel", "angular", "flatbar"} =>
                 /\ sp.err = "none"
                 /\ pr = ProfileBuilder(sec, pr.is_solid)
            /\ sec.shape \in {"tprofile", "poly"} =>
                 IF sec.poly_outer # "None"
                 THEN /\ sp.err = "none"
                      /\ pr.outer_curve = sec.poly_outer
                      /\ pr.disconnected = "False"
                 ELSE sp.err = "ValueError"

C19_Witness ==
    /\ sp.op = "build" /\ sp.err = "none"
    /\ sp.sec.shape = "tprofile" /\ sp.sec.poly_outer = "poly"
    /\ sp.profile.outer_curve = "poly" /\ sp.profile.disconnected = "False"

\* C20: every reader of a profile's outer curve takes the list
\* outer_curve_disconnected when the profile is disconnected, and the single
\* outer_curve only otherwise.
C20_ReadersBranchOnDisconnected ==
    (/\ sp.op \in {"get_outer_points", "get_bm_section_curve",
                   "get_thickness_assignments_for_cogs"}
     /\ sp.profile.disconnected = "True")
        => /\ sp.err \notin {"AttributeError", "TypeError"}
           /\ sp.ot = sp.profile.outer_curve_disconnected.v

\* some cog of the call coincides with the curve at position i
CogNear(i) == \E k \in 1..Len(sp.cogs) : i \in sp.cogs[k].near

\* the call is on an I-profile and some cog's normal is parallel to xdir
CogParallel == is_i_profile(sp.sec) /\ \E k \in 1..Len(sp.cogs) : sp.cogs[k].par

\* C21: get_thickness_assignments_for_cogs returns one assignment per outer
\* curve; a curve gets the web entry only through a parallel normal on an
\* I-profile, otherwise the thickness-map entry at its own index through a
\* coinciding centroid, so that a flange curve gets its flange entry; a curve
\* with no match makes the call raise ValueError.
C21_ThicknessAssignments ==
    (/\ sp.op = "get_thickness_assignments_for_cogs"
     /\ sp.profile.disconnected \in {"True", "False"})
        => LET n == Len(sp.ot)
               map == sp.profile.shell_thickness_map.v
           IN  IF \E i \in 1..n : ~CogNear(i) /\ ~CogParallel
               THEN sp.err = "ValueError"
               ELSE /\ sp.err = "none"
                    /\ Len(sp.res) = n
                    /\ \A i \in 1..n :
                          /\ sp.res[i][1] = "web" => (CogParallel \/ map[i][1] = "web")
                          /\ (sp.res[i] # map[i]) => (CogParallel /\ sp.res[i][1] = "web")
                          /\ (map[i][1] \in {"top_flange", "btn_flange"} /\ CogNear(i))
                                => sp.res[i] = map[i]

(***************************************************************************)
(* Constructors on raw coordinate tuples: Beam.__init__ and Wall.__init__  *)
(***************************************************************************)
\* every variable of the other worlds at rest
RestIdle ==
    /\ scene = "none"
    /\ cu = UnitsM
    /\ heap = Construct(cu, 1)
    /\ heap0 = heap
    /\ last = IdleLast
    /\ trk = IdleTrk
    /\ uq = IdleUq
    /\ fin = IdleFin
    /\ bm = IdleBm
    /\ jw = IdleJw
    /\ cb = IdleCb
    /\ sp = IdleSp

\* most components of a raw coordinate tuple
MaxDim == 4
Coord == {0, 1}
RawTuples == UNION {[1..n -> Coord] : n \in 2..MaxDim}

\* p[:3]
Slice3(p) == SubSeq(p, 1, IF Len(p) < 3 THEN Len(p) ELSE 3)

\* what Node(p) may hold for a p of other than three components: the
\* components as given, or the components padded with zeros; "raised" when
\* Node or the frame computation on such a node fails
NodeOutcomes(p) ==
    IF Len(p) = 3 THEN {p}
    ELSE {p, p \o [i \in 1..(3 - Len(p)) |-> 0], <<"raised">>}

\* Wall.__init__: np_ = [float(c) for c in p]; if len(np_) == 2: np_ += [0.0]
WallPoint(p) == IF Len(p) = 2 THEN p \o <<0>> ELSE p

CoordInit ==
    /\ RestIdle
    /\ co = IdleCo
    /\ rf = IdleRf
    /\ sid = IdleSid
    /\ ln = IdleLn
    /\ wsg = IdleWsg

\* Beam(name, n1, n2, sec) with n1 and n2 raw tuples
NewBeamFromTuples ==
    /\ co.status = "none"
    /\ \E n1 \in RawTuples, n2 \in RawTuples :
       \E s1 \in NodeOutcomes(Slice3(n1)), s2 \in NodeOutcomes(Slice3(n2)) :
          co' = IF s1 = <<"raised">> \/ s2 = <<"raised">>
                THEN [status |-> "Beam", given |-> <<n1, n2>>, points |-> <<>>,
                      err |-> "ValueError"]
                ELSE [status |-> "Beam", given |-> <<n1, n2>>, points |-> <<s1, s2>>,
                      err |-> "none"]
    /\ UNCHANGED <<uq, cu, scene, heap, heap0, last, trk, fin, bm, jw, cb, sp, rf, sid, ln, wsg>>

\* Wall(name, points, height, thickness) with two raw tuples as points
NewWallFromTuples ==
    /\ co.status = "none"
    /\ \E p1 \in RawTuples, p2 \in RawTuples :
          co' = [status |-> "Wall", given |-> <<p1, p2>>,
                 points |-> <<WallPoint(p1), WallPoint(p2)>>, err |-> "none"]
    /\ UNCHANGED <<uq, cu, scene, heap, heap0, last, trk, fin, bm, jw, cb, sp, rf, sid, ln, wsg>>

CoordNext == NewBeamFromTuples \/ NewWallFromTuples

CoordSpec == CoordInit /\ [][CoordNext]_vars

\* C22: a Beam or Wall built from raw coordinate tuples stores exactly three
\* components for every point, a 2-component point padded with a zero.
C22_ThreeComponentsStored ==
    (co.status \in {"Beam", "Wall"} /\ co.err = "none") =>
        \A i \in 1..Len(co.points) :
            /\ Len(co.points[i]) = 3
            /\ Len(co.given[i]) = 2 => co.points[i] = co.given[i] \o <<0>>

(***************************************************************************)
(* The refs lists: Beam.__init__ (section and material setup) and the      *)
(* section, taper and material setters                                     *)
(***************************************************************************)
RefSections == {"SA", "SB", "SC"}
RefMaterials == {"MA", "MB"}

\* get_section(sec) for a Section object: the section, and the section again
\* as the taper derived from it
get_section(sec) == <<sec, sec>>

\* Beam.__init__, section and material setup, for the beam "b"
BeamSetup(sec, tap, mat) ==
    LET st == get_section(sec)
        refs0 == [o \in RefSections \cup RefMaterials |-> <<>>]
        refs1 == [refs0 EXCEPT ![st[1]] = Append(@, "b")]
        refs2 == [refs1 EXCEPT ![st[2]] = Append(@, "b")]
        refs3 == [refs2 EXCEPT ![mat] = Append(@, "b")]
    IN  [status |-> "Beam", section |-> st[1],
         taper |-> IF tap # "None" THEN get_section(tap)[1] ELSE st[2],
         material |-> mat, refs |-> refs3, op |-> "init"]

RefsInit ==
    /\ RestIdle
    /\ co = IdleCo
    /\ rf = IdleRf
    /\ sid = IdleSid
    /\ ln = IdleLn
    /\ wsg = IdleWsg

\* b = Beam(name, n1, n2, sec, mat, tap=tap)
NewBeamWithRefs ==
    /\ rf.status = "none"
    /\ \E sec \in RefSections, tap \in RefSections \cup {"None"}, mat \in RefMaterials :
          rf' = BeamSetup(sec, tap, mat)
    /\ UNCHANGED <<uq, cu, scene, heap, heap0, last, trk, fin, bm, jw, cb, sp, co, sid, ln, wsg>>

\* b.section = value
RefSetSection ==
    /\ rf.status = "Beam"
    /\ \E value \in RefSections : rf' = [rf EXCEPT !.section = value, !.op = "section"]
    /\ UNCHANGED <<uq, cu, scene, heap, heap0, last, trk, fin, bm, jw, cb, sp, co, sid, ln, wsg>>

\* b.taper = value
RefSetTaper ==
    /\ rf.status = "Beam"
    /\ \E value \in RefSections : rf' = [rf EXCEPT !.taper = value, !.op = "taper"]
    /\ UNCHANGED <<uq, cu, scene, heap, heap0, last, trk, fin, bm, jw, cb, sp, co, sid, ln, wsg>>

\* b.material = value
RefSetMaterial ==
    /\ rf.status = "Beam"
    /\ \E value \in RefMaterials : rf' = [rf EXCEPT !.material = value, !.op = "material"]
    /\ UNCHANGED <<uq, cu, scene, heap, heap0, last, trk, fin, bm, jw, cb, sp, co, sid, ln, wsg>>

RefsNext == NewBeamWithRefs \/ RefSetSection \/ RefSetTaper \/ RefSetMaterial

RefsSpec == RefsInit /\ [][RefsNext]_vars

\* the objects whose refs list holds the beam
ListsBeam == {o \in RefSections \cup RefMaterials :
                \E i \in 1..Len(rf.refs[o]) : rf.refs[o][i] = "b"}

\* C23: in every reachable state a beam is in the refs list of its current
\* section, of its current taper and of its current material, and no section
\* or material it no longer references still lists it.
C23_RefsFollowBeam ==
    rf.status = "Beam" => ListsBeam = {rf.section, rf.taper, rf.material}

(***************************************************************************)
(* Further properties of the unit cascade                                  *)
(***************************************************************************)
\* the statements the last assignment ran on its target
StepsRun == {last.log[i].step : i \in {j \in 1..Len(last.log) : last.log[j].self = last.self}}

\* the curves whose scale operation the last assignment called
CurvesRescaled ==
    IF last.cls = "Plate" THEN {c \in {"C_PL"} : "poly" \in StepsRun}
    ELSE IF last.cls = "Section"
    THEN {c \in {SecPolyInner(last.self)} \ {"None"} : "poly_inner" \in StepsRun}
         \cup {c \in {SecPolyOuter(last.self)} \ {"None"} : "poly_outer" \in StepsRun}
    ELSE {}

\* the tolerance constant of a unit, however the unit is denoted
TolOfUnit(value) == IF value \in {UnitsMM, Str(<<"m", "m">>)} THEN "mmtol" ELSE "mtol"

\* C24: when a unit conversion rescales a boundary curve, the tolerance given
\* to the curve's scale operation is the tolerance constant of the new unit.
C24_CurveTolOfNewUnit ==
    \A c \in CurvesRescaled : heap.poly[c].tol = TolOfUnit(last.value)

(***************************************************************************)
(* ada/sections/concept.py: Section.id                                     *)
(***************************************************************************)
\* largest id tried
MaxId == 8

\* a Python value with its type: int, float, bool, str or None
PyInt(n) == [k |-> "int", v |-> <<n>>]
IdInts == {PyInt(n) : n \in -1..MaxId}
IdValues ==
    IdInts \cup {NoneV, Str(<<"1">>), [k |-> "bool", v |-> <<1>>],
                 [k |-> "float", v |-> <<1, 0>>], [k |-> "float", v |-> <<2, 5>>]}

\* Section.id setter that stores the value before it tests its type
SectionSetId_storeFirst(id, value) ==
    IF value.k # "int" THEN [id |-> value, err |-> "ValueError"]
    ELSE [id |-> value, err |-> "none"]

\* Section.id setter: if type(value) is not int: raise ValueError
SectionSetId(id, value) ==
    IF value.k # "int" THEN [id |-> id, err |-> "ValueError"]
    ELSE [id |-> value, err |-> "none"]

\* Section(name, ..., sec_id=sec_id): self._id = sec_id
SectionIdInit ==
    /\ RestIdle
    /\ co = IdleCo
    /\ rf = IdleRf
    /\ \E sec_id \in IdInts \cup {NoneV} :
          sid = [status |-> "Section", id |-> sec_id, op |-> "init",
                 value |-> NoneV, before |-> sec_id, err |-> "none"]
    /\ ln = IdleLn
    /\ wsg = IdleWsg

\* sec.id = value
SetSectionId ==
    /\ sid.status = "Section"
    /\ \E value \in IdValues :
          LET r == SectionSetId(sid.id, value)
          IN  sid' = [sid EXCEPT !.id = r.id, !.op = "id", !.value = value,
                                 !.before = sid.id, !.err = r.err]
    /\ UNCHANGED <<uq, cu, scene, heap, heap0, last, trk, fin, bm, jw, cb, sp, co, rf, ln, wsg>>

SectionIdNext == SetSectionId

SectionIdSpec == SectionIdInit /\ [][SectionIdNext]_vars

\* C25: assigning a non-integer to a Section's id raises ValueError and
\* leaves the stored id unchanged; assigning an integer stores it.
C25_SectionIdIsInt ==
    sid.op = "id" =>
        IF sid.value.k = "int"
        THEN sid.err = "none" /\ sid.id = sid.value
        ELSE sid.err = "ValueError" /\ sid.id = sid.before

C25_Witness ==
    /\ sid.op = "id"
    /\ sid.value.k = "float"
    /\ sid.err = "ValueError"
    /\ sid.before = PyInt(3)
    /\ sid.id = PyInt(3)

(***************************************************************************)
(* ada/concepts/structural.py: Beam.length                                 *)
(***************************************************************************)
\* most reads of length in one behaviour
MaxReads == 3

LengthPoints == {<<0, 0, 0>>, <<4, 0, 0>>, <<0, 3, 0>>, <<1, 1, 1>>}
\* e1 and e2: None (<<>>) or an offset
Eccentricities == {<<>>, <<1, 0, 0>>, <<0, 0, -1>>}

\* Beam.length: p1 and p2 are the arrays the nodes hold, `p1 += self.e1` and
\* `p2 += self.e2` add in place; the value returned is vector_length(p2 - p1),
\* held here as its square
BeamLength(n1, n2, e1, e2) ==
    LET p1 == AddEcc(n1, e1)
        p2 == AddEcc(n2, e2)
    IN  [n1 |-> p1, n2 |-> p2, ret |-> D2(p2, p1)]

\* Beam(name, n1, n2, sec, e1=e1, e2=e2)
LengthInit ==
    /\ RestIdle
    /\ co = IdleCo
    /\ rf = IdleRf
    /\ sid = IdleSid
    /\ \E n1 \in LengthPoints, n2 \in LengthPoints,
          e1 \in Eccentricities, e2 \in Eccentricities :
          ln = [status |-> "Beam", n1 |-> n1, n2 |-> n2, e1 |-> e1, e2 |-> e2,
                before |-> <<n1, n2>>, reads |-> <<>>]
    /\ wsg = IdleWsg

\* bm.length
ReadLength ==
    /\ ln.status = "Beam"
    /\ Len(ln.reads) < MaxReads
    /\ LET r == BeamLength(ln.n1, ln.n2, ln.e1, ln.e2)
       IN  ln' = [ln EXCEPT !.n1 = r.n1, !.n2 = r.n2, !.before = <<ln.n1, ln.n2>>,
                            !.reads = Append(@, r.ret)]
    /\ UNCHANGED <<uq, cu, scene, heap, heap0, last, trk, fin, bm, jw, cb, sp, co, rf, sid, wsg>>

LengthNext == ReadLength

LengthSpec == LengthInit /\ [][LengthNext]_vars

\* C26: reading a beam's length has no side effect: n1 and n2 are where they
\* were before the read, and two successive reads return the same value, also
\* with e1 and/or e2 set.
C26_LengthReadIsPure ==
    (ln.status = "Beam" /\ ln.reads # <<>>) =>
        /\ <<ln.n1, ln.n2>> = ln.before
        /\ \A i \in 1..(Len(ln.reads) - 1) : ln.reads[i] = ln.reads[i + 1]

\* the unit a units argument denotes
UnitDenoted(units) ==
    IF units \in {Str(<<"m">>), UnitsM} THEN UnitsM ELSE UnitsMM

\* C27: an entity constructed through Root with units "m" or "mm" stores
\* Units.M or Units.MM; the unit of a constructed entity is never None.
C27_StringUnitsStored ==
    \A o \in Objs \ Materials :
        /\ heap0.unit[o] = UnitDenoted(cu)
        /\ heap0.unit[o] # NoneV

C29_TaperConverted ==
    (BeamConverted /\ last.fresh) =>
        LET tap == BeamTaper(last.self)
            f == get_scale_factor(last.old, last.value)
        IN  /\ heap.unit[tap] = last.value
            /\ \A d \in DOMAIN heap.dims[tap] :
                  heap.dims[tap][d] = Mul(heap0.dims[tap][d], f)

(***************************************************************************)
(* ada/concepts/structural.py: Wall.get_segment_props                      *)
(***************************************************************************)
\* largest segment index tried
MaxSegmentIndex == 4

WallSegInit ==
    /\ scene = "wall"
    /\ cu \in CtorUnits
    /\ \E L \in 1..MaxBase : heap = Construct(cu, L)
    /\ heap0 = heap
    /\ last = IdleLast
    /\ trk = IdleTrk
    /\ uq = IdleUq
    /\ fin = IdleFin
    /\ bm = IdleBm
    /\ jw = IdleJw
    /\ cb = IdleCb
    /\ sp = IdleSp
    /\ co = IdleCo
    /\ rf = IdleRf
    /\ sid = IdleSid
    /\ ln = IdleLn
    /\ wsg = [status |-> "Wall", op |-> "init", wall_segment |-> 0, nseg |-> 0,
              err |-> "none", ret |-> <<>>]

\* wall.get_segment_props(wall_segment)
GetSegmentProps ==
    /\ wsg.status = "Wall"
    /\ \E wall_segment \in -1..MaxSegmentIndex :
          LET r == get_segment_props(heap.wall.segments, wall_segment)
          IN  wsg' = [wsg EXCEPT !.op = "get_segment_props",
                                 !.wall_segment = wall_segment,
                                 !.nseg = Len(heap.wall.segments),
                                 !.err = r.err, !.ret = r.ret]
    /\ UNCHANGED <<uq, cu, scene, heap, heap0, last, trk, fin, bm, jw, cb, sp, co, rf, sid, ln>>

WallSegNext == GetSegmentProps \/ WallSetUnits

WallSegSpec == WallSegInit /\ [][WallSegNext]_vars

\* C30: get_segment_props raises ValueError for every index beyond the last
\* segment, the index equal to the number of segments included, and returns
\* the three direction vectors for every existing index; the segments always
\* pair consecutive points, also after a unit conversion.
C30_SegmentPropsChecked ==
    /\ wsg.op = "get_segment_props" =>
          /\ wsg.wall_segment >= wsg.nseg => wsg.err = "ValueError"
          /\ wsg.wall_segment \in 0..(wsg.nseg - 1) =>
                wsg.err = "none" /\ Len(wsg.ret) = 3
    /\ wsg.status = "Wall" =>
          /\ Len(heap.wall.segments) = Len(heap.wall.points) - 1
          /\ \A i \in 1..Len(heap.wall.segments) :
                heap.wall.segments[i] = <<heap.wall.points[i], heap.wall.points[i + 1]>>

====
